---- MODULE Spec2Model ----
(***************************************************************************)
(* A model of ion/build.py, the build script that wraps gyp and the native *)
(* build tools: the builder registry and the lookup main performs on it,   *)
(* the command-line build flags, the generate / build / test pipeline of   *)
(* main, and the test scheduler TargetBuilder.RunTests with its pool; and  *)
(* of the two graph functions of ion/dev/ion.py.                           *)
(*                                                                         *)
(* The module holds several specifications over one set of variables; each *)
(* drives one part of the program and leaves the other parts idle:         *)
(*   SpecFlags     _FindBuildFlags, _ParseCommandLineArgs (second pass),   *)
(*                 GetActiveBuildFlags                                     *)
(*   SpecRegistry  RegisterBuilder and the builder lookup of main          *)
(*   Spec          one run of main                                         *)
(*   SpecTests     one call of RunTests, with the pool's workers           *)
(*   SpecInterrupt the same, with KeyboardInterrupt raised in workers      *)
(*   SpecInterruptLive  the same, with the scheduling of the threads       *)
(*   SpecGyp       the -D values of _ConstructGypFlags                     *)
(*   SpecCfg       _FindConfigurationsForOS and _FindAllConfigurations     *)
(*   SpecDirs      BuildOutputRootDir and BuildOutputDir of two builders   *)
(*   SpecDump      GetDependencyJson and the test targets of RunTests      *)
(*   SpecArgs      the command line of _ConstructGypArgs                   *)
(*   SpecLibs      ComputeLibraryDependencies and TopologicalSort of       *)
(*                 dev/ion.py                                              *)
(***************************************************************************)
EXTENDS Integers, Sequences, FiniteSets, TLC

VARIABLES
  \* ---- build flags (BuildState) ----
  fpc,                    \* position in BuildState.__init__ / GetActiveBuildFlags
  possible_build_flags_,  \* BuildState.possible_build_flags_: flag -> declared default
  cmdline,                \* the --<flag> values given on the command line
  flag_args,              \* the argparse namespace, restricted to the build flags
  active_flags,           \* the dictionary GetActiveBuildFlags returned
  \* ---- one run of the script: registry, BuildState, main ----
  pc,                     \* position of the control thread in the script
  registry,               \* BUILDER_REGISTRY: ordered sequence of [key, cls]
  host_os,                \* BuildState.host_os
  args,                   \* BuildState.args_: the parsed command-line options
  argv,                   \* the options as parse_args returned them from sys.argv
  filename,               \* BuildState.filename_: the gyp file to run, or None
  builder,                \* the builder class main instantiated, or None
  instances,              \* number of builder instances constructed so far
  all_configs_,           \* BuildState.all_configs_ at the key of the builder
  configuration,          \* the configuration main builds and tests
  gyp_retcode,            \* what builder.RunGyp returned to main
  exitcode,               \* what builder.RunBuild returned to main
  dependency_dump,        \* the test targets of the dump RunTests loaded
  retcode,                \* what builder.RunTests returned to main
  events,                 \* the external effects of the run so far, in order
  error,                  \* the message of the error that ended the run, or None
  exit_status,            \* the exit status of the process, or None while it runs
  \* ---- one call of TargetBuilder.RunTests ----
  tpc,                    \* position of the control thread in RunTests
  runner,                 \* the class of the builder RunTests is called on
  stop_on_failure,        \* the stop_on_failure argument
  test_status,            \* test target -> the status its test binary exits with
  cpu_count,              \* multiprocessing.cpu_count() of the host
  threads,                \* cmdflags.threads: the value of -j/--threads, None when not given
  pool_size,              \* the number of workers of self.pool
  pools_created,          \* how many multiprocessing.dummy.Pool objects were created
  console,                \* the most recent write to sys.stdout of the test phase
  pool_state,             \* self.pool: "open", "closed" or "joined"
  tasks,                  \* the tasks given to self.pool, in the order of apply_async
  stdout_lock,            \* self.stdout_lock: the task that holds it, 0 when free
  results,                \* the list results of RunTests
  next_target,            \* the index of the next test target of the for loop
  calls,                  \* the calls the control thread has made, in order
  ret,                    \* what RunTests returned, None while it runs
  \* ---- the -D values of TargetBuilder._ConstructGypFlags ----
  gyp_defines,            \* what GypDefines returns: define -> value
  gyp_variables,          \* what GypVariables returns: variable -> value
  D_orders,               \* the iteration orders of the two dicts, per composition
  D_runs,                 \* gyp_args['-D'] of each composition so far
  \* ---- the configurations of dev/os.gypi ----
  os_gypi,                \* the document: whether the file exists, its target_defaults
  config_calls,           \* the calls of _FindConfigurationsForOS so far
  all_configs,            \* what _FindAllConfigurations returned or raised, <<>> before
  \* ---- the output directories of two builders ----
  strategies,             \* two registered classes, each with a configuration
  output_dirs,            \* their BuildOutputRootDir() and BuildOutputDir(configuration)
  \* ---- the dependency dump and the test targets taken from it ----
  dpc,                    \* position in RunTests: GetDependencyJson, selection, for loop
  dump_files,             \* dump.json at the two places, once the dump generator has run
  json_path,              \* the paths GetDependencyJson gave json_path, in order
  dump_raised,            \* the exception GetDependencyJson raised, or None
  dump_keys,              \* dependency_dump.keys()
  test_targets,           \* the set test_targets
  run_test_calls,         \* the targets RunTest was called for, in order
  \* ---- one call of TargetBuilder._ConstructGypArgs ----
  flags,                  \* the flags argument: flag -> None, a string or a list
  flags_order,            \* the order flags.iteritems() yields the flags in
  gypfile,                \* the filename argument
  command_line,           \* the list _ConstructGypArgs returned, <<>> before
  \* ---- one call of a function of dev/ion.py on a dependency dictionary ----
  lib_dict,               \* the dictionary: node -> the list of the nodes it depends on
  lib_keys,               \* the order keys() yields the keys of the dictionary in
  lib_result,             \* <<what ComputeLibraryDependencies returned or raised>>
  sort_result             \* <<what TopologicalSort returned or raised>>

flagVars == <<fpc, possible_build_flags_, cmdline, flag_args, active_flags>>
mainVars == <<pc, registry, host_os, args, argv, filename, builder, instances,
              all_configs_, configuration, gyp_retcode, exitcode, dependency_dump,
              retcode, events, error, exit_status>>
testVars == <<tpc, runner, stop_on_failure, test_status, cpu_count, threads, pool_size,
              pools_created, console, pool_state, tasks, stdout_lock, results,
              next_target, calls, ret>>
gypVars  == <<gyp_defines, gyp_variables, D_orders, D_runs>>
cfgVars  == <<os_gypi, config_calls, all_configs>>
dirVars  == <<strategies, output_dirs>>
dumpVars == <<dpc, dump_files, json_path, dump_raised, dump_keys, test_targets, run_test_calls>>
argVars  == <<flags, flags_order, gypfile, command_line>>
libVars  == <<lib_dict, lib_keys, lib_result, sort_result>>
vars     == <<flagVars, mainVars, testVars, gypVars, cfgVars, dirVars, dumpVars, argVars,
              libVars>>

\* What the actions of one part of the program leave alone.
notFlagVars == <<mainVars, testVars, gypVars, cfgVars, dirVars, dumpVars, argVars, libVars>>
notMainVars == <<flagVars, testVars, gypVars, cfgVars, dirVars, dumpVars, argVars, libVars>>
notTestVars == <<flagVars, mainVars, gypVars, cfgVars, dirVars, dumpVars, argVars, libVars>>
notGypVars  == <<flagVars, mainVars, testVars, cfgVars, dirVars, dumpVars, argVars, libVars>>
notCfgVars  == <<flagVars, mainVars, testVars, gypVars, dirVars, dumpVars, argVars, libVars>>
notDirVars  == <<flagVars, mainVars, testVars, gypVars, cfgVars, dumpVars, argVars, libVars>>
notDumpVars == <<flagVars, mainVars, testVars, gypVars, cfgVars, dirVars, argVars, libVars>>
notArgVars  == <<flagVars, mainVars, testVars, gypVars, cfgVars, dirVars, dumpVars, libVars>>
notLibVars  == <<flagVars, mainVars, testVars, gypVars, cfgVars, dirVars, dumpVars, argVars>>

\* Python's None.
None == "<None>"

(***************************************************************************)
(* Python values that are an int, a str or None (the values of the build   *)
(* flags, the return codes main tests).  A str is the sequence of its      *)
(* characters.                                                             *)
(***************************************************************************)
PyInt(n) == [t |-> "int", i |-> n, s |-> <<>>]
PyStr(str) == [t |-> "str", i |-> 0, s |-> str]
PyNone == [t |-> "None", i |-> 0, s |-> <<>>]

\* Python truthiness of such a value.
PyTruthy(v) == (v.t = "int" /\ v.i # 0) \/ (v.t = "str" /\ v.s # <<>>)

\* Bounds of the flag model.
MaxStrLen == 1
MaxFlagInt == 1

Chars == {"0", "1", "a"}
Digits == {"0", "1", "2", "3", "4", "5", "6", "7", "8", "9"}
FlagNames == {"f1", "f2"}

RECURSIVE StringsUpTo(_)
StringsUpTo(n) ==
  IF n = 0 THEN {<<>>}
  ELSE LET shorter == StringsUpTo(n - 1)
       IN  shorter \cup {Append(str, c) : str \in shorter, c \in Chars}

Strings == StringsUpTo(MaxStrLen)
FlagDefaults == {PyInt(n) : n \in 0..MaxFlagInt} \cup {PyStr(str) : str \in Strings}

DigitValue(c) ==
  CASE c = "0" -> 0 [] c = "1" -> 1 [] c = "2" -> 2 [] c = "3" -> 3 [] c = "4" -> 4
    [] c = "5" -> 5 [] c = "6" -> 6 [] c = "7" -> 7 [] c = "8" -> 8 [] c = "9" -> 9

DigitChar(d) == <<"0", "1", "2", "3", "4", "5", "6", "7", "8", "9">>[d + 1]

\* int(str) succeeds on a non-empty string of decimal digits (the alphabet of
\* the model holds no sign and no white space).
IsIntLiteral(str) == Len(str) > 0 /\ \A k \in 1..Len(str) : str[k] \in Digits

RECURSIVE IntOfDigits(_)
IntOfDigits(str) ==
  IF Len(str) = 0 THEN 0
  ELSE 10 * IntOfDigits(SubSeq(str, 1, Len(str) - 1)) + DigitValue(str[Len(str)])

\* str(n) of a non-negative int.
RECURSIVE DigitsOfInt(_)
DigitsOfInt(n) ==
  IF n < 10 THEN <<DigitChar(n)>>
  ELSE Append(DigitsOfInt(n \div 10), DigitChar(n % 10))

\* The text of a value, as it would be typed on the command line.
PyText(v) == IF v.t = "int" THEN DigitsOfInt(v.i) ELSE v.s

\* Python's != on these values: an int never equals a str.
PyNe(a, b) ==
  \/ a.t # b.t
  \/ a.t = "int" /\ a.i # b.i
  \/ a.t = "str" /\ a.s # b.s

\* _ParseCommandLineArgs: default_converted = int(default_value), and the value
\* itself when int() raises ValueError.
ConvertDefault(default_value) ==
  IF default_value.t = "int" THEN default_value
  ELSE IF IsIntLiteral(default_value.s) THEN PyInt(IntOfDigits(default_value.s))
  ELSE default_value

\* The namespace parse_args returns for the build flags: the text given on the
\* command line (argparse is given no type, so it stays a str), else the
\* converted default.
ParsedFlags(possible, given) ==
  [k \in DOMAIN possible |->
     IF k \in DOMAIN given THEN PyStr(given[k]) ELSE ConvertDefault(possible[k])]

\* GetActiveBuildFlags: the flags whose parsed value != the declared default.
ActiveBuildFlags(possible, parsed) ==
  LET keys == {k \in DOMAIN possible : PyNe(possible[k], parsed[k])}
  IN  [k \in keys |-> parsed[k]]

FlagsIdle ==
  /\ fpc = "idle"
  /\ possible_build_flags_ = <<>>
  /\ cmdline = <<>>
  /\ flag_args = <<>>
  /\ active_flags = <<>>

FlagsInit ==
  /\ fpc = "start"
  /\ possible_build_flags_ = <<>>
  /\ cmdline = <<>>
  /\ flag_args = <<>>
  /\ active_flags = <<>>

\* _FindBuildFlags: the declared flags and their defaults, read from
\* common_variables.gypi.
FindBuildFlags ==
  /\ fpc = "start"
  /\ \E names \in SUBSET FlagNames :
       \E defaults \in [names -> FlagDefaults] :
         possible_build_flags_' = defaults
  /\ fpc' = "found"
  /\ UNCHANGED <<cmdline, flag_args, active_flags, notFlagVars>>

\* _ParseCommandLineArgs, second pass: one option per declared flag, then
\* parse_args over the command line.
ParseCommandLineArgs ==
  /\ fpc = "found"
  /\ \E names \in SUBSET (DOMAIN possible_build_flags_) :
       \E given \in [names -> Strings] :
         /\ cmdline' = given
         /\ flag_args' = ParsedFlags(possible_build_flags_, given)
  /\ fpc' = "parsed"
  /\ UNCHANGED <<possible_build_flags_, active_flags, notFlagVars>>

GetActiveBuildFlags ==
  /\ fpc = "parsed"
  /\ active_flags' = ActiveBuildFlags(possible_build_flags_, flag_args)
  /\ fpc' = "active"
  /\ UNCHANGED <<possible_build_flags_, cmdline, flag_args, notFlagVars>>


(***************************************************************************)
(* Builder classes and the registry.                                       *)
(*                                                                         *)
(* A builder class is the record of its class attributes and of which      *)
(* implementation of each overridable method it has:                       *)
(*   gyp_args   "base" | "hybrid" | "xcode" | "winninja" | "msvs"          *)
(*   run_build  "tool" (runs the build tool) | "msvs" (prints, returns     *)
(*              None)                                                      *)
(*   run_test   "pool" (apply_async on the pool) | "pool_print" (prints    *)
(*              the command, then apply_async) | "stub" (returns 0)        *)
(*   clean_gen  "none" | "projects" (deletes GYP_PROJECTS_DIR)             *)
(***************************************************************************)
BuilderClass(name, target_os, flavor, generator, hosts, subdir, gyp_args, run_build, run_test, clean_gen) ==
  [name |-> name, TARGET_OS |-> target_os, TARGET_FLAVOR |-> flavor,
   GYP_GENERATOR |-> generator, POSSIBLE_HOST_OS |-> hosts,
   GYP_OUT_SUBDIR |-> subdir, gyp_args |-> gyp_args, run_build |-> run_build,
   run_test |-> run_test, clean_gen |-> clean_gen]

\* Python truthiness of a str-or-None attribute.
Truthy(x) == x # None /\ x # ""

\* RegisterBuilder: the key a class is registered under.
BuilderKey(cls) ==
  LET builder_os == IF Truthy(cls.TARGET_FLAVOR)
                    THEN cls.TARGET_OS \o "-" \o cls.TARGET_FLAVOR
                    ELSE cls.TARGET_OS
  IN  <<builder_os, cls.GYP_GENERATOR>>

\* key in BUILDER_REGISTRY
HasKey(reg, key) == \E i \in 1..Len(reg) : reg[i].key = key

\* The position of a key of the ordered dictionary.
KeyIndex(reg, key) == CHOOSE i \in 1..Len(reg) : reg[i].key = key

\* BUILDER_REGISTRY[key] = builder_class on an OrderedDict: a new key goes to
\* the end, a key already present keeps its position and gets the new value.
SetItem(reg, key, cls) ==
  IF HasKey(reg, key)
  THEN [reg EXCEPT ![KeyIndex(reg, key)] = [key |-> key, cls |-> cls]]
  ELSE Append(reg, [key |-> key, cls |-> cls])

\* RegisterBuilder raises Error for a class without TARGET_OS.
CanRegister(cls) == Truthy(cls.TARGET_OS)

RegisterBuilderResult(reg, cls) == SetItem(reg, BuilderKey(cls), cls)

\* The @RegisterBuilder classes of build.py, in the order of their definition.
Hosts_L == {"linux"}
Hosts_LM == {"linux", "mac"}
Hosts_M == {"mac"}
Hosts_W == {"win"}

RegisteredClasses == <<
  BuilderClass("LinuxBuilder", "linux", "", "ninja", Hosts_L, "linux",
               "base", "tool", "pool", "none"),
  BuilderClass("LinuxHostBuilder", "linux", "host", "ninja", Hosts_L, "linux-host",
               "base", "tool", "pool", "none"),
  BuilderClass("ASMJSBuilder", "asmjs", "", "ninja", Hosts_L, "asmjs",
               "base", "tool", "pool_print", "none"),
  BuilderClass("NACLBuilder", "nacl", "", "ninja", Hosts_LM, "nacl",
               "base", "tool", "pool", "none"),
  BuilderClass("PNACLBuilder", "nacl", "pnacl", "ninja", Hosts_LM, "nacl-pnacl",
               "base", "tool", "stub", "none"),
  BuilderClass("AndroidBuilder", "android", "", "ninja-android", Hosts_LM, "android",
               "base", "tool", "pool", "none"),
  BuilderClass("AndroidArmBuilder", "android", "arm", "ninja-android", Hosts_LM,
               "android-arm", "base", "tool", "pool", "none"),
  BuilderClass("AndroidX86Builder", "android", "x86", "ninja-android", Hosts_LM,
               "android-x86", "base", "tool", "pool", "none"),
  BuilderClass("AndroidMipsBuilder", "android", "mips", "ninja-android", Hosts_LM,
               "android-mips", "base", "tool", "stub", "none"),
  BuilderClass("AndroidArm64Builder", "android", "arm64", "ninja-android", Hosts_LM,
               "android-arm64", "base", "tool", "stub", "none"),
  BuilderClass("AndroidMips64Builder", "android", "mips64", "ninja-android", Hosts_LM,
               "android-mips64", "base", "tool", "stub", "none"),
  BuilderClass("Androidx8664Builder", "android", "x86_64", "ninja-android", Hosts_LM,
               "android-x86_64", "base", "tool", "stub", "none"),
  BuilderClass("MacNinjaBuilder", "mac", "", "ninja", Hosts_M, "mac-ninja",
               "base", "tool", "pool", "none"),
  BuilderClass("MacHybridBuilder", "mac", "", "xcode-ninja", Hosts_M, "mac-hybrid",
               "hybrid", "tool", "pool", "projects"),
  BuilderClass("MacNinjaHostBuilder", "mac", "host", "ninja", Hosts_M,
               "mac-ninja-host", "base", "tool", "pool", "none"),
  BuilderClass("MacBuilder", "mac", "", "xcode", Hosts_M, "mac-xcode",
               "xcode", "tool", "pool", "projects"),
  BuilderClass("IOSBuilder", "ios", "", "xcode", Hosts_M, "ios",
               "xcode", "tool", "pool", "projects"),
  BuilderClass("IOSSimulatorBuilder", "ios", "x86", "xcode", Hosts_M, "ios-x86",
               "xcode", "tool", "pool", "projects"),
  BuilderClass("IOSNinjaBuilder", "ios", "", "ninja", Hosts_M, "ios-ninja",
               "base", "tool", "pool", "none"),
  BuilderClass("IOSNinjaSimulatorBuilder", "ios", "x86", "ninja", Hosts_M,
               "ios-x86-ninja", "base", "tool", "pool", "none"),
  BuilderClass("WindowsBuilderNinja", "win", "", "ninja", Hosts_W, "win-ninja",
               "winninja", "tool", "pool", "none"),
  BuilderClass("WindowsHostBuilderNinja", "win", "host", "ninja", Hosts_W,
               "win-ninja-host", "winninja", "tool", "pool", "none"),
  BuilderClass("WindowsBuilderMSVS", "win", "", "msvs", Hosts_W, "win-msvs",
               "msvs", "msvs", "pool", "projects") >>

\* BUILDER_REGISTRY once the module is loaded: every decorator has run.
RECURSIVE RegisterAll(_, _)
RegisterAll(reg, classes) ==
  IF classes = <<>> THEN reg
  ELSE RegisterAll(RegisterBuilderResult(reg, Head(classes)), Tail(classes))

BUILDER_REGISTRY == RegisterAll(<<>>, RegisteredClasses)

(***************************************************************************)
(* main: the lookup of the builder (the generator of the request, the      *)
(* exact key, the fallback to the first builder of the target OS).         *)
(***************************************************************************)
NoBuilderForGenerator == "No builder was found for OS that uses the generator"
NoBuilderForOS == "No builder was found for OS"
NoGypFile == "Could not determine what you want to build"

\* gyp_generator = args.generator, and 'ninja' when --ninja is given.
RequestedGenerator(a) == IF a.ninja THEN "ninja" ELSE a.generator

\* The key main looks up.
RequestedKey(a) == <<a.os, RequestedGenerator(a)>>

\* The positions of the keys of a target OS, in the order of the dictionary.
OSIndexes(reg, os) == {i \in 1..Len(reg) : reg[i].key[1] = os}

Min(S) == CHOOSE x \in S : \A y \in S : x <= y
Max(S) == CHOOSE x \in S : \A y \in S : x >= y

\* A mutant of DefaultBuilderIndex: the last builder of the OS is the default.
DefaultBuilderIndex_Last(reg, os) == Max(OSIndexes(reg, os))

\* for key in BUILDER_REGISTRY.iterkeys(): if key[0] == args.os: ...; break
DefaultBuilderIndex(reg, os) == Min(OSIndexes(reg, os))

\* A mutant of UsesExactKey: the exact key is never used.
UsesExactKey_Never(reg, a) == FALSE

\* if key in BUILDER_REGISTRY
UsesExactKey(reg, a) == HasKey(reg, RequestedKey(a))

\* A mutant of UsesDefault: every request without an exact key falls back.
UsesDefault_Always(a) == TRUE

\* elif not args.generator
UsesDefault(a) == ~Truthy(a.generator)

\* builder = None
NoBuilder == [name |-> None]

\* The class main instantiates and the error it exits with (None for none).
FindBuilder(reg, a) ==
  IF UsesExactKey(reg, a)
  THEN [cls |-> reg[KeyIndex(reg, RequestedKey(a))].cls, error |-> None]
  ELSE IF UsesDefault(a)
  THEN IF OSIndexes(reg, a.os) # {}
       THEN [cls |-> reg[DefaultBuilderIndex(reg, a.os)].cls, error |-> None]
       ELSE [cls |-> NoBuilder, error |-> NoBuilderForOS]
  ELSE [cls |-> NoBuilder, error |-> NoBuilderForGenerator]

(***************************************************************************)
(* Python's | on ints (unbounded two's complement).                        *)
(***************************************************************************)
RECURSIVE PyOr(_, _)
PyOr(a, b) ==
  IF a = 0 THEN b
  ELSE IF b = 0 THEN a
  ELSE IF a = -1 \/ b = -1 THEN -1
  ELSE (IF a % 2 = 1 \/ b % 2 = 1 THEN 1 ELSE 0) + 2 * PyOr(a \div 2, b \div 2)

\* A mutant of Accumulate: the last return code replaces the earlier ones.
Accumulate_Last(retcode_cumulative, code) == code

\* retcode_cumulative |= retcode
Accumulate(retcode_cumulative, code) == PyOr(retcode_cumulative, code)

RECURSIVE OrAll(_)
OrAll(codes) ==
  IF codes = <<>> THEN 0
  ELSE Accumulate(OrAll(SubSeq(codes, 1, Len(codes) - 1)), codes[Len(codes)])

(***************************************************************************)
(* Paths and the arguments composed for gyp.                               *)
(***************************************************************************)
GYP_OUT_DIR == "gyp-out"
GYP_PROJECTS_DIR == "gyp-projects/build"

\* os.path.join of two relative components.
PathJoin(a, b) == a \o "/" \o b

\* A mutant of BuildOutputRootDir: GYP_OUT_SUBDIR is left out.
BuildOutputRootDir_NoSubdir(cls) == GYP_OUT_DIR

BuildOutputRootDir(cls) == PathJoin(GYP_OUT_DIR, cls.GYP_OUT_SUBDIR)

BuildOutputDir(cls, config) == PathJoin(BuildOutputRootDir(cls), config)

\* CanBuildOnHost
CanBuildOnHost(cls, host) == host \in cls.POSSIBLE_HOST_OS

\* DumpDependencyBuilder(state, target_os, target_flavor): the instance takes
\* the target of the builder it is made for.
DumpDependencyBuilder(target_os, target_flavor) ==
  BuilderClass("DumpDependencyBuilder", target_os, target_flavor,
               "dump_dependency_json", {"linux", "mac", "win"}, "json",
               "base", "unimplemented", "pool", "none")

\* GypArgs: the list under '-G' once GypArgs of the class has returned.
\* generator_flags is the list GetAdditionalGypGeneratorFlags returns, that is
\* args.G itself, and append and += change that list in place.
GypArgsG(cls, G) ==
  LET base == Append(G, "output_dir=" \o BuildOutputRootDir(cls))
  IN  CASE cls.gyp_args = "xcode" -> Append(base, "xcode_project_version=3.2")
        [] cls.gyp_args = "winninja" -> Append(base, "ninja_use_custom_environment_files")
        [] OTHER -> base

\* args.G after GypArgs: the list GypArgs appended to is args.G (no copy is
\* made by GetAdditionalGypGeneratorFlags).
ArgsGAfterGypArgs(cls, G) == GypArgsG(cls, G)

(***************************************************************************)
(* main.                                                                   *)
(***************************************************************************)
GypStatuses == {0, 1}
BuildStatuses == {0, 1}
MainTestStatuses == {0, 2}

\* Bound: the number of test targets of the dump in a run of main.
MaxMainTests == 2

\* if gyp_retcode:
GypFailed(code) == PyTruthy(code)

\* A mutant of BuildFailed: the return code of the build is ignored.
BuildFailed_Never(code) == FALSE

\* if exitcode:
BuildFailed(code) == PyTruthy(code)

\* if retcode:
TestsFailed(code) == PyTruthy(code)

Event(ev, by, info) == [ev |-> ev, by |-> by, info |-> info]

Exit(status, message) ==
  /\ pc' = "exit"
  /\ exit_status' = status
  /\ error' = message

\* if not filename and not args.clean: ExitWithError(...)
CheckGypFile ==
  /\ pc = "main"
  /\ IF filename = None /\ ~args.clean
     THEN Exit(1, NoGypFile)
     ELSE pc' = "lookup" /\ UNCHANGED <<exit_status, error>>
  /\ UNCHANGED <<registry, host_os, args, filename, argv, builder, instances, all_configs_,
                 configuration, gyp_retcode, exitcode, dependency_dump, retcode,
                 events, notMainVars>>

\* The lookup of the builder and its instantiation.
SelectBuilder ==
  /\ pc = "lookup"
  /\ LET found == FindBuilder(registry, args)
     IN  IF found.cls.name # None
         THEN /\ builder' = found.cls
              /\ instances' = instances + 1
              /\ pc' = "selected"
              /\ UNCHANGED <<exit_status, error>>
         ELSE /\ Exit(1, found.error)
              /\ UNCHANGED <<builder, instances>>
  /\ UNCHANGED <<registry, host_os, args, filename, argv, all_configs_, configuration,
                 gyp_retcode, exitcode, dependency_dump, retcode, events, notMainVars>>

\* gyp_args['-f'] of _ConstructGypFlags: 'gypd' with --gypd, else the
\* generator of the builder.
GypFlagF(cls, a) == IF a.gypd THEN "gypd" ELSE cls.GYP_GENERATOR

\* TargetBuilder.RunGyp up to the call of gyp.main: what it raises before gyp
\* would run (None when gyp runs).  _FindNearestFiles fails on a filename of
\* None with an exception that is not an Error.
RunGypRaises(cls, host, file) ==
  IF ~CanBuildOnHost(cls, host) THEN "InvalidTargetOSError"
  ELSE IF file = None THEN "TypeError"
  ELSE None

\* A mutant of DepsMode: main does not return after the dump.
DepsMode_GoesOn ==
  /\ pc = "selected"
  /\ args.deps
  /\ LET dump == DumpDependencyBuilder(builder.TARGET_OS, builder.TARGET_FLAVOR)
     IN  /\ instances' = instances + 1
         /\ args' = [args EXCEPT !.G = ArgsGAfterGypArgs(dump, args.G)]
         /\ events' = Append(events, Event("gyp", dump.name, [G |-> GypArgsG(dump, args.G), f |-> GypFlagF(dump, args), ret |-> 0]))
         /\ pc' = "gyp"
  /\ UNCHANGED <<registry, host_os, filename, argv, builder, all_configs_, configuration,
                 gyp_retcode, exitcode, dependency_dump, retcode, exit_status, error,
                 notMainVars>>

\* if args.deps: DumpDependencyBuilder(...).RunGyp(filename); return
\* The return value of RunGyp is dropped, and main returns None.
DepsMode ==
  /\ pc = "selected"
  /\ args.deps
  /\ LET dump == DumpDependencyBuilder(builder.TARGET_OS, builder.TARGET_FLAVOR)
         G == GypArgsG(dump, args.G)
     IN  /\ instances' = instances + 1
         /\ args' = [args EXCEPT !.G = ArgsGAfterGypArgs(dump, args.G)]
         /\ IF RunGypRaises(dump, host_os, filename) # None
            THEN /\ Exit(1, RunGypRaises(dump, host_os, filename))
                 /\ UNCHANGED events
            ELSE \E code \in GypStatuses :
                   /\ events' = Append(events, Event("gyp", dump.name, [G |-> G, f |-> GypFlagF(dump, args), ret |-> code]))
                   /\ Exit(0, None)
  /\ UNCHANGED <<registry, host_os, filename, argv, builder, all_configs_, configuration,
                 gyp_retcode, exitcode, dependency_dump, retcode, notMainVars>>

\* if args.clean: CleanBuildOutputDirectory(); CleanGeneratorDirectory();
\* and return 0 when there is no gyp file.
Clean ==
  /\ pc = "selected"
  /\ ~args.deps
  /\ args.clean
  /\ events' = events
       \o <<Event("clean_out", builder.name, BuildOutputRootDir(builder))>>
       \o (IF builder.clean_gen = "projects"
           THEN <<Event("clean_gen", builder.name, GYP_PROJECTS_DIR)>>
           ELSE <<>>)
  /\ IF filename = None
     THEN Exit(0, None)
     ELSE pc' = "gyp" /\ UNCHANGED <<exit_status, error>>
  /\ UNCHANGED <<registry, host_os, args, filename, argv, builder, instances, all_configs_,
                 configuration, gyp_retcode, exitcode, dependency_dump, retcode,
                 notMainVars>>

NoClean ==
  /\ pc = "selected"
  /\ ~args.deps
  /\ ~args.clean
  /\ pc' = "gyp"
  /\ UNCHANGED <<registry, host_os, args, filename, argv, builder, instances, all_configs_,
                 configuration, gyp_retcode, exitcode, dependency_dump, retcode,
                 events, error, exit_status, notMainVars>>

\* if not args.nogyp: gyp_retcode = builder.RunGyp(filename); if gyp_retcode: ...
\* InvalidTargetOSError is an Error: main catches it and exits with status 1.
RunGyp ==
  /\ pc = "gyp"
  /\ ~args.nogyp
  /\ IF RunGypRaises(builder, host_os, filename) # None
     THEN /\ Exit(1, RunGypRaises(builder, host_os, filename))
          /\ UNCHANGED <<args, events, gyp_retcode>>
     ELSE \E code \in GypStatuses :
            /\ args' = [args EXCEPT !.G = ArgsGAfterGypArgs(builder, args.G)]
            /\ events' = Append(events, Event("gyp", builder.name,
                                              [G |-> GypArgsG(builder, args.G), f |-> GypFlagF(builder, args), ret |-> code]))
            /\ gyp_retcode' = PyInt(code)
            /\ IF GypFailed(PyInt(code))
               THEN Exit(1, "gyp returned non-zero")
               ELSE pc' = "config" /\ UNCHANGED <<exit_status, error>>
  /\ UNCHANGED <<registry, host_os, filename, argv, builder, instances, all_configs_,
                 configuration, exitcode, dependency_dump, retcode, notMainVars>>

NoGyp ==
  /\ pc = "gyp"
  /\ args.nogyp
  /\ pc' = "config"
  /\ UNCHANGED <<registry, host_os, args, filename, argv, builder, instances, all_configs_,
                 configuration, gyp_retcode, exitcode, dependency_dump, retcode,
                 events, error, exit_status, notMainVars>>

\* configuration = args.configuration, and the first configuration of the
\* builder's key when none is given: [0] of an empty list raises IndexError,
\* which main does not catch.
PickConfiguration ==
  /\ pc = "config"
  /\ IF args.configuration # None
     THEN /\ configuration' = args.configuration
          /\ pc' = "build"
          /\ UNCHANGED <<exit_status, error>>
     ELSE IF all_configs_ # <<>>
     THEN /\ configuration' = all_configs_[1]
          /\ pc' = "build"
          /\ UNCHANGED <<exit_status, error>>
     ELSE /\ Exit(1, "IndexError")
          /\ UNCHANGED configuration
  /\ UNCHANGED <<registry, host_os, args, filename, argv, builder, instances, all_configs_,
                 gyp_retcode, exitcode, dependency_dump, retcode, events, notMainVars>>

\* if not args.nobuild: exitcode = builder.RunBuild(configuration, filename)
\* WindowsBuilderMSVS.RunBuild prints the path of the solution, runs no tool
\* and returns None; every other builder checks the host and runs its tool.
RunBuild ==
  /\ pc = "build"
  /\ ~args.nobuild
  /\ IF builder.run_build = "msvs"
     THEN /\ exitcode' = PyNone
          /\ events' = Append(events, Event("open_visual_studio", builder.name, None))
          /\ pc' = "test"
          /\ UNCHANGED <<exit_status, error>>
     ELSE IF ~CanBuildOnHost(builder, host_os)
     THEN /\ Exit(1, "InvalidTargetOSError")
          /\ UNCHANGED <<exitcode, events>>
     ELSE \E code \in BuildStatuses :
            /\ exitcode' = PyInt(code)
            /\ events' = Append(events, Event("build", builder.name, code))
            /\ IF BuildFailed(PyInt(code))
               THEN Exit(1, "Build failed.")
               ELSE pc' = "test" /\ UNCHANGED <<exit_status, error>>
  /\ UNCHANGED <<registry, host_os, args, filename, argv, builder, instances, all_configs_,
                 configuration, gyp_retcode, dependency_dump, retcode, notMainVars>>

NoBuild ==
  /\ pc = "build"
  /\ args.nobuild
  /\ pc' = "test"
  /\ UNCHANGED <<registry, host_os, args, filename, argv, builder, instances, all_configs_,
                 configuration, gyp_retcode, exitcode, dependency_dump, retcode,
                 events, error, exit_status, notMainVars>>

\* The index of the first non-zero return code, 0 when there is none.
FirstFailure(codes) ==
  IF \E i \in 1..Len(codes) : codes[i] # 0
  THEN Min({i \in 1..Len(codes) : codes[i] # 0})
  ELSE 0

\* RunTests, seen from main: how many of the test targets, taken in the order
\* of iteration, RunTest is called for, given the return code each would have.
RunTestsInvoked(codes, stop) ==
  IF stop /\ FirstFailure(codes) # 0 THEN FirstFailure(codes) ELSE Len(codes)

\* RunTests, seen from main: the value it returns.
RunTestsReturn(codes, stop) ==
  IF stop /\ FirstFailure(codes) # 0
  THEN codes[FirstFailure(codes)]
  ELSE OrAll(codes)

\* Where dump.json is after the dump generator ran.
DumpLocations == {"output_root", "gyp_cwd", "absent"}

\* RunTests, first part: the DumpDependencyBuilder is made and
\* GetDependencyJson runs gyp (dropping its return code) and loads dump.json;
\* open() raises IOError, which main does not catch, when the file is at
\* neither place.
LoadDependencies ==
  /\ pc = "test"
  /\ args.test \/ args.test_until_failure
  /\ LET dump == DumpDependencyBuilder(builder.TARGET_OS, builder.TARGET_FLAVOR)
     IN  /\ instances' = instances + 1
         /\ args' = [args EXCEPT !.G = ArgsGAfterGypArgs(dump, args.G)]
         /\ \E code \in GypStatuses, where \in DumpLocations :
              /\ events' = Append(events, Event("gyp", dump.name,
                                                [G |-> GypArgsG(dump, args.G), f |-> GypFlagF(dump, args), ret |-> code]))
              /\ IF where = "absent"
                 THEN /\ Exit(1, "IOError")
                      /\ UNCHANGED dependency_dump
                 ELSE /\ \E n \in 0..MaxMainTests : dependency_dump' = n
                      /\ pc' = "run_tests"
                      /\ UNCHANGED <<exit_status, error>>
  /\ UNCHANGED <<registry, host_os, filename, argv, builder, all_configs_, configuration,
                 gyp_retcode, exitcode, retcode, notMainVars>>

\* The return codes the test targets of a builder can have: a builder whose
\* RunTest is a stub returns 0 for every target.
TestOutcomes(cls, n) ==
  IF cls.run_test = "stub" THEN {[i \in 1..n |-> 0]}
  ELSE [1..n -> MainTestStatuses]

\* RunTests, second part, and what main does with the value it returns.
RunTests ==
  /\ pc = "run_tests"
  /\ \E codes \in TestOutcomes(builder, dependency_dump) :
       LET invoked == RunTestsInvoked(codes, args.test_until_failure)
           code == RunTestsReturn(codes, args.test_until_failure)
       IN  /\ events' = Append(events, Event("tests", builder.name,
                                             SubSeq(codes, 1, invoked)))
           /\ retcode' = PyInt(code)
           /\ IF TestsFailed(PyInt(code))
              THEN Exit(1, "There were test failures.")
              ELSE Exit(0, None)
  /\ UNCHANGED <<registry, host_os, args, filename, argv, builder, instances, all_configs_,
                 configuration, gyp_retcode, exitcode, dependency_dump, notMainVars>>

NoTests ==
  /\ pc = "test"
  /\ ~(args.test \/ args.test_until_failure)
  /\ Exit(0, None)
  /\ UNCHANGED <<registry, host_os, args, filename, argv, builder, instances, all_configs_,
                 configuration, gyp_retcode, exitcode, dependency_dump, retcode,
                 events, notMainVars>>

(***************************************************************************)
(* The command lines of the runs of main.                                  *)
(***************************************************************************)
HostOSes == {"linux", "mac", "win"}

Options(os, generator, ninja, clean, nogyp, nobuild, deps, gypd, test, test_until_failure, config, G) ==
  [os |-> os, generator |-> generator, ninja |-> ninja, clean |-> clean,
   nogyp |-> nogyp, nobuild |-> nobuild, deps |-> deps, gypd |-> gypd, test |-> test,
   test_until_failure |-> test_until_failure, configuration |-> config, G |-> G]

\* -o and -g of the runs of main: a builder of each kind, and requests that
\* find no builder.
MainTargets == {<<"linux", None>>, <<"mac", "xcode">>, <<"win", "msvs">>,
                <<"win", None>>, <<"nacl-pnacl", None>>, <<"linux", "msvs">>,
                <<"beos", None>>}

UserG == {<<>>, <<"msvs_version=2013">>}

MainOptions ==
  {Options(t[1], t[2], FALSE, clean, nogyp, nobuild, deps, gypd, test, tuf, config, G) :
     t \in MainTargets, clean \in BOOLEAN, nogyp \in BOOLEAN, nobuild \in BOOLEAN,
     deps \in BOOLEAN, gypd \in BOOLEAN, test \in BOOLEAN, tuf \in BOOLEAN,
     config \in {None, "opt"}, G \in UserG}

MainRunInit ==
  /\ pc = "main"
  /\ host_os \in HostOSes
  /\ args \in MainOptions
  /\ argv = args
  /\ filename \in {None, "ion/ion.gyp"}
  /\ all_configs_ \in {<<>>, <<"dbg", "opt">>}
  /\ builder = NoBuilder
  /\ instances = 0
  /\ configuration = None
  /\ gyp_retcode = PyNone
  /\ exitcode = PyNone
  /\ dependency_dump = 0
  /\ retcode = PyNone
  /\ events = <<>>
  /\ error = None
  /\ exit_status = None

MainInit == registry = BUILDER_REGISTRY /\ MainRunInit

MainIdle ==
  /\ pc = "idle"
  /\ registry = <<>>
  /\ host_os = None
  /\ args = <<>>
  /\ argv = <<>>
  /\ filename = None
  /\ all_configs_ = <<>>
  /\ builder = NoBuilder
  /\ instances = 0
  /\ configuration = None
  /\ gyp_retcode = PyNone
  /\ exitcode = PyNone
  /\ dependency_dump = 0
  /\ retcode = PyNone
  /\ events = <<>>
  /\ error = None
  /\ exit_status = None

MainNext ==
  \/ CheckGypFile
  \/ SelectBuilder
  \/ DepsMode
  \/ Clean
  \/ NoClean
  \/ RunGyp
  \/ NoGyp
  \/ PickConfiguration
  \/ RunBuild
  \/ NoBuild
  \/ LoadDependencies
  \/ RunTests
  \/ NoTests

(***************************************************************************)
(* Registrations: the module is loaded, its decorators run, then main      *)
(* looks a builder up.                                                     *)
(***************************************************************************)
\* Bound: the number of keys of the registry.
MaxRegistered == 3

RegistrationError == "Cannot register builder class"

\* Classes a module could decorate with @RegisterBuilder: two with the same
\* key, one with another generator, one without generator, one with a
\* flavor, one of another OS, and one without TARGET_OS.
CandidateClasses == {
  BuilderClass("NinjaBuilder", "linux", "", "ninja", Hosts_L, "linux",
               "base", "tool", "pool", "none"),
  BuilderClass("OtherNinjaBuilder", "linux", "", "ninja", Hosts_L, "linux2",
               "base", "tool", "pool", "none"),
  BuilderClass("MakeBuilder", "linux", "", "make", Hosts_L, "linux-make",
               "base", "tool", "pool", "none"),
  BuilderClass("DefaultGeneratorBuilder", "linux", "", None, Hosts_L, "linux-default",
               "base", "tool", "pool", "none"),
  BuilderClass("HostBuilder", "linux", "host", "ninja", Hosts_L, "linux-host",
               "base", "tool", "pool", "none"),
  BuilderClass("MSVSBuilder", "win", "", "msvs", Hosts_W, "win-msvs",
               "msvs", "msvs", "pool", "projects"),
  BuilderClass("AbstractBuilder", None, "", "ninja", Hosts_L, "none",
               "base", "tool", "pool", "none") }

LookupTargets == {"linux", "linux-host", "win"}
LookupGenerators == {None, "", "ninja", "msvs"}

LookupOptions ==
  {Options(os, generator, ninja, FALSE, FALSE, FALSE, FALSE, FALSE, FALSE, FALSE, None, <<>>) :
     os \in LookupTargets, generator \in LookupGenerators, ninja \in BOOLEAN}

\* @RegisterBuilder on one more class.
RegisterBuilder ==
  /\ pc = "register"
  /\ \E cls \in CandidateClasses :
       IF ~CanRegister(cls)
       THEN /\ Exit(1, RegistrationError)
            /\ UNCHANGED registry
       ELSE /\ HasKey(registry, BuilderKey(cls)) \/ Len(registry) < MaxRegistered
            /\ registry' = RegisterBuilderResult(registry, cls)
            /\ UNCHANGED <<pc, exit_status, error>>
  /\ UNCHANGED <<host_os, args, filename, argv, builder, instances, all_configs_,
                 configuration, gyp_retcode, exitcode, dependency_dump, retcode,
                 events, notMainVars>>

\* The script is run: BuildState parses the command line and main starts.
StartMain ==
  /\ pc = "register"
  /\ pc' = "main"
  /\ host_os' \in HostOSes
  /\ args' \in LookupOptions
  /\ argv' = args'
  /\ filename' \in {None, "ion/ion.gyp"}
  /\ UNCHANGED <<registry, builder, instances, all_configs_, configuration,
                 gyp_retcode, exitcode, dependency_dump, retcode, events, error,
                 exit_status, notMainVars>>

RegistryInit ==
  /\ pc = "register"
  /\ registry = <<>>
  /\ host_os = None
  /\ args = <<>>
  /\ argv = <<>>
  /\ filename = None
  /\ all_configs_ = <<>>
  /\ builder = NoBuilder
  /\ instances = 0
  /\ configuration = None
  /\ gyp_retcode = PyNone
  /\ exitcode = PyNone
  /\ dependency_dump = 0
  /\ retcode = PyNone
  /\ events = <<>>
  /\ error = None
  /\ exit_status = None

RegistryNext == RegisterBuilder \/ StartMain \/ CheckGypFile \/ SelectBuilder

(***************************************************************************)
(* TargetBuilder.RunTests: the control thread, the pool of the builder and *)
(* the workers that run _AsyncSubprocess.                                  *)
(***************************************************************************)
\* Bound: the number of test targets of a call of RunTests.
MaxTests == 3

\* Bound: the number of workers of the pool.
MaxPoolSize == 2

\* The statuses a test binary exits with (a negative one: killed by a signal).
TestStatuses == {0, 1, 2, -1}

\* The builders RunTests is called on: one whose RunTest gives the test to
\* the pool, one whose RunTest prints the command first, one whose RunTest
\* is a stub.
TestRunners == {RegisteredClasses[1], RegisteredClasses[3], RegisteredClasses[5]}

\* RunTest of the class calls self.pool.apply_async.
Pooled(cls) == cls.run_test \in {"pool", "pool_print"}

\* A task of the pool: _AsyncSubprocess for one test target.
\*   queued   given to apply_async, no worker has taken it
\*   running  a worker is in Popen / communicate / wait
\*   exited   the process has exited, the worker is at stdout_lock.acquire()
\*   locked   the worker holds stdout_lock and prints
\*   done     _AsyncSubprocess has returned retcode
Task(target) == [target |-> target, state |-> "queued", retcode |-> 0, interrupted |-> FALSE]

\* multiprocessing.AsyncResult of a task of the pool.
AsyncResult(task) == [kind |-> "async", task |-> task, retcode |-> 0]

\* A wrapper whose get() does not return the status it was made with.
FakeAsyncResult_Failed(code) == [kind |-> "fake", task |-> 0, retcode |-> code + 1]

\* _FakeAsyncResult(retcode)
FakeAsyncResult(code) == [kind |-> "fake", task |-> 0, retcode |-> code]

\* The tasks a worker of the pool is busy with.
Busy(ts) == {i \in 1..Len(ts) : ts[i].state \in {"running", "exited", "locked"}}

\* A result.get() that never waits for the task.
Ready_Always(ts, result) == TRUE

\* result.get() returns without waiting.
Ready(ts, result) ==
  IF result.kind = "fake" THEN TRUE ELSE ts[result.task].state = "done"

\* result.get()
Get(ts, result) ==
  IF result.kind = "fake" THEN result.retcode ELSE ts[result.task].retcode

\* The return codes of a list of results, in the order of the list.
GetAll(ts, rs) == [i \in 1..Len(rs) |-> Get(ts, rs[i])]

Call(name, target) == [call |-> name, target |-> target]

\* A mutant of StopNow: a failure does not stop the loop.
StopNow_Never(code) == FALSE

\* if retcode: return retcode (in the stop_on_failure branch)
StopNow(code) == code # 0

\* A mutant of PoolProcesses: the value of -j/--threads when it is given.
PoolProcesses_Threads(count, j) == IF j = PyNone THEN count ELSE j.i

\* TargetBuilder.__init__: Pool(processes=self.TEST_RUNNER_POOL_SIZE), and
\* TEST_RUNNER_POOL_SIZE = multiprocessing.cpu_count(); cmdflags.threads is
\* read by BuildArgs only.
PoolProcesses(count, j) == count

\* A write to sys.stdout: the task of the worker that writes (0 for the
\* control thread), the test target it is about, what is written, the
\* holder of stdout_lock at that time, and whether a task of the pool other
\* than the writer's is not done yet.
ConsoleWrite(task, target, text, ts, lock) == [task |-> task, target |-> target, text |-> text, lock |-> lock, unfinished |-> \E j \in 1..Len(ts) : j # task /\ ts[j].state # "done"]

\* Nothing was written yet.
NoWrite == [task |-> 0, target |-> 0, text |-> "", lock |-> 0, unfinished |-> FALSE]

\* A mutant of SetupCalls: the hook is not called.
SetupCalls_NoHook == <<Call("GetDependencyJson", 0)>>

\* What RunTests calls before the for loop: GetDependencyJson of the dump
\* builder, then GlobalTestSetup of the builder itself.
SetupCalls == <<Call("GetDependencyJson", 0), Call("GlobalTestSetup", 0)>>

\* RunTests up to the for loop: the DumpDependencyBuilder (a TargetBuilder,
\* with a pool of its own), GlobalTestSetup and the creation of the lock.
BeginRunTests ==
  /\ tpc = "start"
  /\ calls' = calls \o SetupCalls
  /\ stdout_lock' = 0
  /\ results' = <<>>
  /\ next_target' = 1
  /\ tpc' = "loop"
  /\ pools_created' = pools_created + 1
  /\ UNCHANGED console
  /\ UNCHANGED <<runner, stop_on_failure, test_status, cpu_count, threads, pool_size, pool_state, tasks,
                 ret, notTestVars>>

\* One turn of the for loop up to result.get(): RunTest, the wrapping of an
\* int in a _FakeAsyncResult, results.append.
CallRunTest ==
  /\ tpc = "loop"
  /\ next_target <= Len(test_status)
  /\ calls' = Append(calls, Call("RunTest", next_target))
  /\ IF Pooled(runner)
     THEN /\ pool_state = "open"
          /\ tasks' = Append(tasks, Task(next_target))
          /\ results' = Append(results, AsyncResult(Len(tasks) + 1))
     ELSE /\ results' = Append(results, FakeAsyncResult(0))
          /\ UNCHANGED tasks
  /\ IF stop_on_failure
     THEN tpc' = "get" /\ UNCHANGED next_target
     ELSE tpc' = "loop" /\ next_target' = next_target + 1
  /\ console' = CASE runner.run_test = "pool_print"
                      -> ConsoleWrite(0, next_target, "command", tasks, stdout_lock)
                 [] runner.run_test = "stub"
                      -> ConsoleWrite(0, next_target, "skipping", tasks, stdout_lock)
                 [] OTHER -> console
  /\ UNCHANGED pools_created
  /\ UNCHANGED <<runner, stop_on_failure, test_status, cpu_count, threads, pool_size, pool_state,
                 stdout_lock, ret, notTestVars>>

\* if stop_on_failure: retcode = result.get(); if retcode: return retcode
GetResult ==
  /\ tpc = "get"
  /\ Ready(tasks, results[Len(results)])
  /\ calls' = Append(calls, Call("get", next_target))
  /\ LET code == Get(tasks, results[Len(results)])
     IN  IF StopNow(code)
         THEN /\ ret' = PyInt(code)
              /\ tpc' = "done"
              /\ UNCHANGED next_target
         ELSE /\ next_target' = next_target + 1
              /\ tpc' = "loop"
              /\ UNCHANGED ret
  /\ console' = IF StopNow(Get(tasks, results[Len(results)]))
                 THEN ConsoleWrite(0, next_target, "non-zero", tasks, stdout_lock)
                 ELSE console
  /\ UNCHANGED pools_created
  /\ UNCHANGED <<runner, stop_on_failure, test_status, cpu_count, threads, pool_size, pool_state, tasks,
                 stdout_lock, results, notTestVars>>

\* self.pool.close(), once the for loop is over.
ClosePool ==
  /\ tpc = "loop"
  /\ next_target > Len(test_status)
  /\ pool_state' = "closed"
  /\ calls' = Append(calls, Call("close", 0))
  /\ tpc' = "join"
  /\ UNCHANGED <<pools_created, console>>
  /\ UNCHANGED <<runner, stop_on_failure, test_status, cpu_count, threads, pool_size, tasks, stdout_lock,
                 results, next_target, ret, notTestVars>>

\* self.pool.join() returns once every task is done; then the second loop
\* gets every result (none of the gets waits) and RunTests returns.
JoinPool ==
  /\ tpc = "join"
  /\ \A i \in 1..Len(tasks) : tasks[i].state = "done"
  /\ pool_state' = "joined"
  /\ calls' = Append(calls, Call("join", 0))
               \o [i \in 1..Len(results) |-> Call("get", i)]
  /\ ret' = PyInt(OrAll(GetAll(tasks, results)))
  /\ tpc' = "done"
  /\ LET failed == {n \in 1..Len(results) : GetAll(tasks, results)[n] # 0}
     IN  console' = IF failed = {} THEN console
                    ELSE ConsoleWrite(0, Max(failed), "non-zero", tasks, stdout_lock)
  /\ UNCHANGED pools_created
  /\ UNCHANGED <<runner, stop_on_failure, test_status, cpu_count, threads, pool_size, tasks, stdout_lock,
                 results, next_target, notTestVars>>

\* A free worker takes the oldest task of the queue and starts the test.
WorkerStart(i) ==
  /\ tasks[i].state = "queued"
  /\ \A j \in 1..(i - 1) : tasks[j].state # "queued"
  /\ Cardinality(Busy(tasks)) < pool_size
  /\ tasks' = [tasks EXCEPT ![i].state = "running"]
  /\ UNCHANGED <<pools_created, console>>
  /\ UNCHANGED <<tpc, runner, stop_on_failure, test_status, cpu_count, threads, pool_size, pool_state,
                 stdout_lock, results, next_target, calls, ret, notTestVars>>

\* The test binary exits: proc.wait() returns its status.
ProcessExit(i) ==
  /\ tasks[i].state = "running"
  /\ tasks' = [tasks EXCEPT ![i].state = "exited",
                            ![i].retcode = test_status[tasks[i].target]]
  /\ UNCHANGED <<pools_created, console>>
  /\ UNCHANGED <<tpc, runner, stop_on_failure, test_status, cpu_count, threads, pool_size, pool_state,
                 stdout_lock, results, next_target, calls, ret, notTestVars>>

\* stdout_lock.acquire()
AcquireLock(i) ==
  /\ tasks[i].state = "exited"
  /\ stdout_lock = 0
  /\ stdout_lock' = i
  /\ tasks' = [tasks EXCEPT ![i].state = "locked"]
  /\ UNCHANGED <<pools_created, console>>
  /\ UNCHANGED <<tpc, runner, stop_on_failure, test_status, cpu_count, threads, pool_size, pool_state,
                 results, next_target, calls, ret, notTestVars>>

\* The worker prints the result of the test, releases the lock and returns.
PrintAndRelease(i) ==
  /\ tasks[i].state = "locked"
  /\ stdout_lock' = 0
  /\ tasks' = [tasks EXCEPT ![i].state = "done"]
  /\ console' = ConsoleWrite(i, tasks[i].target, "result", tasks, stdout_lock)
  /\ UNCHANGED pools_created
  /\ UNCHANGED <<tpc, runner, stop_on_failure, test_status, cpu_count, threads, pool_size, pool_state,
                 results, next_target, calls, ret, notTestVars>>

TestsInit ==
  /\ tpc = "start"
  /\ runner \in TestRunners
  /\ stop_on_failure \in BOOLEAN
  /\ test_status \in UNION {[1..n -> TestStatuses] : n \in 0..MaxTests}
  /\ cpu_count \in 1..MaxPoolSize
  /\ threads \in {PyNone, PyInt(cpu_count + 1)}
  /\ pool_size = PoolProcesses(cpu_count, threads)
  /\ pools_created = 1
  /\ console = NoWrite
  /\ pool_state = "open"
  /\ tasks = <<>>
  /\ stdout_lock = 0
  /\ results = <<>>
  /\ next_target = 1
  /\ calls = <<>>
  /\ ret = PyNone

TestsIdle ==
  /\ tpc = "idle"
  /\ runner = NoBuilder
  /\ stop_on_failure = FALSE
  /\ test_status = <<>>
  /\ cpu_count = 0
  /\ threads = PyNone
  /\ pool_size = 0
  /\ pools_created = 0
  /\ console = NoWrite
  /\ pool_state = "open"
  /\ tasks = <<>>
  /\ stdout_lock = 0
  /\ results = <<>>
  /\ next_target = 1
  /\ calls = <<>>
  /\ ret = PyNone

TestsNext ==
  \/ BeginRunTests
  \/ CallRunTest
  \/ GetResult
  \/ ClosePool
  \/ JoinPool
  \/ \E i \in 1..Len(tasks) : WorkerStart(i)
  \/ \E i \in 1..Len(tasks) : ProcessExit(i)
  \/ \E i \in 1..Len(tasks) : AcquireLock(i)
  \/ \E i \in 1..Len(tasks) : PrintAndRelease(i)

(***************************************************************************)
(* A KeyboardInterrupt raised in a worker that is inside the try block of  *)
(* _AsyncSubprocess.                                                       *)
(***************************************************************************)
\* A mutant of Interrupted: the worker returns 0.
Interrupted_ReturnsZero(task) == [task EXCEPT !.state = "done", !.retcode = 0, !.interrupted = TRUE]

\* except KeyboardInterrupt: return -1
Interrupted(task) == [task EXCEPT !.state = "done", !.retcode = -1, !.interrupted = TRUE]

\* The interrupt is raised in worker i between Popen and the release of the
\* lock; the except clause releases nothing.
Interrupt(i) ==
  /\ tasks[i].state \in {"running", "exited", "locked"}
  /\ tasks' = [tasks EXCEPT ![i] = Interrupted(tasks[i])]
  /\ UNCHANGED <<tpc, runner, stop_on_failure, test_status, cpu_count, threads, pool_size,
                 pools_created, console, pool_state, stdout_lock, results, next_target,
                 calls, ret, notTestVars>>

\* The calls of RunTests in which workers can be interrupted: a builder
\* whose RunTest gives the test to the pool, tests that pass or fail.
InterruptInit ==
  /\ tpc = "start"
  /\ runner = RegisteredClasses[1]
  /\ stop_on_failure \in BOOLEAN
  /\ test_status \in UNION {[1..n -> {0, 1}] : n \in 0..MaxTests}
  /\ cpu_count \in 1..MaxPoolSize
  /\ threads = PyNone
  /\ pool_size = PoolProcesses(cpu_count, threads)
  /\ pools_created = 1
  /\ console = NoWrite
  /\ pool_state = "open"
  /\ tasks = <<>>
  /\ stdout_lock = 0
  /\ results = <<>>
  /\ next_target = 1
  /\ calls = <<>>
  /\ ret = PyNone

InterruptNext ==
  \/ TestsNext
  \/ \E i \in 1..Len(tasks) : Interrupt(i)

(***************************************************************************)
(* TargetBuilder._ConstructGypFlags: the -D values.  A str is the sequence *)
(* of its characters; a dict is iterated in an order the program does not  *)
(* choose.                                                                 *)
(***************************************************************************)
\* Bound: the number of compositions of one run.
MaxCompositions == 2

\* ord() of a character.
Ord(c) ==
  CASE c = "0" -> 48
    [] c = "1" -> 49
    [] c = "=" -> 61
    [] c = "a" -> 97
    [] c = "b" -> 98

\* The names and the values of the defines and of the variables.
DefineKeys == {<<"a">>, <<"a", "0">>, <<"b">>}
VariableKeys == {<<"a">>, <<"a", "b">>}
DefineValues == {<<>>, <<"1">>}

\* '{k}={v}'.format(k=k, v=v)
FormatDefine(k, v) == k \o <<"=">> \o v

\* a < b on two str.
RECURSIVE StrLess(_, _)
StrLess(a, b) ==
  IF b = <<>> THEN FALSE
  ELSE IF a = <<>> THEN TRUE
  ELSE IF Ord(Head(a)) # Ord(Head(b)) THEN Ord(Head(a)) < Ord(Head(b))
  ELSE StrLess(Tail(a), Tail(b))

RECURSIVE InsertSorted(_, _)
InsertSorted(x, l) ==
  IF l = <<>> THEN <<x>>
  ELSE IF StrLess(Head(l), x) THEN <<Head(l)>> \o InsertSorted(x, Tail(l))
  ELSE <<x>> \o l

\* A mutant of SortD: the list is left in the order of the appends.
SortD_Unsorted(l) == l

\* gyp_args['-D'].sort()
RECURSIVE SortD(_)
SortD(l) == IF l = <<>> THEN <<>> ELSE InsertSorted(Head(l), SortD(Tail(l)))

\* The orders a dict with these keys can be iterated in.
IterationOrders(keys) ==
  {o \in [1..Cardinality(keys) -> keys] : \A i, j \in DOMAIN o : i # j => o[i] # o[j]}

\* for k, v in d.iteritems(): gyp_args['-D'].append('{k}={v}'...)
AppendDefines(d, order) == [i \in DOMAIN order |-> FormatDefine(order[i], d[order[i]])]

\* The '-D' list _ConstructGypFlags returns.
ConstructGypFlagsD(defines, variables, order_d, order_v) ==
  SortD(AppendDefines(defines, order_d) \o AppendDefines(variables, order_v))

\* One call of _ConstructGypFlags.
ConstructGypFlags ==
  /\ Len(D_runs) < MaxCompositions
  /\ \E order_d \in IterationOrders(DOMAIN gyp_defines),
        order_v \in IterationOrders(DOMAIN gyp_variables) :
       /\ D_orders' = Append(D_orders, <<order_d, order_v>>)
       /\ D_runs' = Append(D_runs, ConstructGypFlagsD(gyp_defines, gyp_variables,
                                                       order_d, order_v))
  /\ UNCHANGED <<gyp_defines, gyp_variables, notGypVars>>

GypInit ==
  /\ gyp_defines \in UNION {[keys -> DefineValues] : keys \in SUBSET DefineKeys}
  /\ gyp_variables \in UNION {[keys -> DefineValues] : keys \in SUBSET VariableKeys}
  /\ D_orders = <<>>
  /\ D_runs = <<>>

GypIdle ==
  /\ gyp_defines = <<>>
  /\ gyp_variables = <<>>
  /\ D_orders = <<>>
  /\ D_runs = <<>>

GypNext == ConstructGypFlags

(***************************************************************************)
(* BuildState._FindConfigurationsForOS and _FindAllConfigurations.         *)
(*                                                                         *)
(* The document is dev/os.gypi in the shape the code's comments call the   *)
(* convention: a 'target_defaults' section that holds 'configurations',    *)
(* 'default_configuration' and 'conditions', whose dicts hold              *)
(* 'configurations' and 'default_configuration'.  A name is the sequence   *)
(* of its characters; a missing key is an empty dict or NoDefault.         *)
(***************************************************************************)
\* default_configuration = None
NoDefault == <<>>

\* Bound: the number of calls of _FindConfigurationsForOS.
MaxConfigCalls == 2

\* (TARGET_OS, TARGET_FLAVOR, GYP_GENERATOR) of a builder class.
ConfigKey(cls) == <<cls.TARGET_OS, cls.TARGET_FLAVOR, cls.GYP_GENERATOR>>

\* The builders whose configurations are looked for: LinuxBuilder,
\* LinuxHostBuilder and WindowsBuilderMSVS, in the order of the registry.
ConfigBuilders == <<RegisteredClasses[1], RegisteredClasses[2], RegisteredClasses[23]>>

ConfigKeys == {ConfigKey(ConfigBuilders[i]) : i \in DOMAIN ConfigBuilders}

Section(configurations, default_configuration, conditions) == [configurations |-> configurations, default_configuration |-> default_configuration, conditions |-> conditions]

\* A 'configurations' dict: name -> whether it is 'abstract'.
ConfigurationDicts ==
  { <<>>,
    (<<"a">> :> FALSE),
    (<<"b">> :> TRUE),
    (<<"a">> :> FALSE) @@ (<<"b">> :> FALSE),
    (<<"a">> :> TRUE) @@ (<<"a", "b">> :> FALSE) @@ (<<"b">> :> FALSE) }

DefaultConfigurations == {NoDefault, <<"a">>, <<"b">>}

\* The dicts of a condition.
ConditionDicts ==
  { Section(<<>>, NoDefault, <<>>),
    Section((<<"a", "0">> :> FALSE), NoDefault, <<>>),
    Section((<<"b">> :> FALSE), <<"b">>, <<>>) }

\* The predicates of the conditions; target_arch is not among the globals
\* the predicates are evaluated with.
Predicates == { "OS==\"linux\"", "flavor==\"host\"", "GENERATOR==\"msvs\"",
                "OS==\"win\" and target_arch==\"x64\"" }

\* A condition is a list [predicate, true_dict] or [predicate, true_dict,
\* else_dict]; a list of another length is a malformed one.
Conditions ==
  [len : {1, 2, 3}, predicate : Predicates, true_dict : ConditionDicts,
   else_dict : {Section(<<>>, NoDefault, <<>>), Section((<<"a", "0">> :> FALSE), <<"a", "0">>, <<>>)}]

\* eval(predicate, gyp_globals): "True", "False" or the error it raises.
EvalPredicate(predicate, key) ==
  CASE predicate = "OS==\"linux\"" -> IF key[1] = "linux" THEN "True" ELSE "False"
    [] predicate = "flavor==\"host\"" -> IF key[2] = "host" THEN "True" ELSE "False"
    [] predicate = "GENERATOR==\"msvs\"" -> IF key[3] = "msvs" THEN "True" ELSE "False"
    [] predicate = "OS==\"win\" and target_arch==\"x64\""
         -> IF key[1] = "win" THEN "NameError" ELSE "False"

\* What handling one condition raises, None when it raises nothing: the
\* unpacking of a list of the wrong length, or the evaluation.
ConditionRaises(condition, key) ==
  IF condition.len \notin {2, 3} THEN "ValueError"
  ELSE IF EvalPredicate(condition.predicate, key) \notin {"True", "False"}
  THEN EvalPredicate(condition.predicate, key)
  ELSE None

\* A mutant of ConditionAppends: no dict of a condition is descended into.
ConditionAppends_Never(condition, key) == <<>>

\* The dicts one condition appends to dicts_to_eval.
ConditionAppends(condition, key) ==
  IF EvalPredicate(condition.predicate, key) = "True" THEN <<condition.true_dict>>
  ELSE IF condition.len = 3 /\ condition.else_dict # Section(<<>>, NoDefault, <<>>)
  THEN <<condition.else_dict>>
  ELSE <<>>

\* The sections in the order they are taken from dicts_to_eval:
\* target_defaults, then the dicts its conditions appended.
RECURSIVE ConditionsAppend(_, _)
ConditionsAppend(conditions, key) ==
  IF conditions = <<>> THEN <<>>
  ELSE ConditionAppends(Head(conditions), key) \o ConditionsAppend(Tail(conditions), key)

DictsToEval(doc, key) ==
  <<doc.target_defaults>> \o ConditionsAppend(doc.target_defaults.conditions, key)

\* The first error met, None when there is none.
RECURSIVE ConditionsRaise(_, _)
ConditionsRaise(conditions, key) ==
  IF conditions = <<>> THEN None
  ELSE IF ConditionRaises(Head(conditions), key) # None
  THEN ConditionRaises(Head(conditions), key)
  ELSE ConditionsRaise(Tail(conditions), key)

\* A filter that lets the abstract configurations through.
NotAbstract_All(configurations) == DOMAIN configurations

\* conf for conf, values in v.items() if not values.get('abstract', False)
NotAbstract(configurations) == {conf \in DOMAIN configurations : ~configurations[conf]}

\* The lists configuration_names can be before the sort: each section
\* extends it with its names in the order its dict is iterated.
RECURSIVE CollectedNames(_)
CollectedNames(sections) ==
  IF sections = <<>> THEN {<<>>}
  ELSE {names \o rest : names \in IterationOrders(NotAbstract(Head(sections).configurations)),
                        rest \in CollectedNames(Tail(sections))}

\* default_configuration once every section is processed: the last one set.
RECURSIVE DeclaredDefault(_)
DeclaredDefault(sections) ==
  IF sections = <<>> THEN NoDefault
  ELSE IF sections[Len(sections)].default_configuration # NoDefault
  THEN sections[Len(sections)].default_configuration
  ELSE DeclaredDefault(SubSeq(sections, 1, Len(sections) - 1))

\* configuration_names.sort()
SortConfigurationNames(names) == SortD(names)

\* names.remove(x): the list without the first x.
RECURSIVE Remove(_, _)
Remove(names, x) ==
  IF names = <<>> THEN <<>>
  ELSE IF Head(names) = x THEN Tail(names)
  ELSE <<Head(names)>> \o Remove(Tail(names), x)

\* A mutant of DefaultFirst: the default stays where the sort put it.
DefaultFirst_Never(names, default_configuration) == names

\* if default_configuration in configuration_names: remove, insert(0, ...)
DefaultFirst(names, default_configuration) ==
  IF \E i \in 1..Len(names) : names[i] = default_configuration
  THEN <<default_configuration>> \o Remove(names, default_configuration)
  ELSE names

\* The calls _FindConfigurationsForOS(*key) can be: what was collected, the
\* default, what it raised and what it returned.
FindConfigurationsForOS(doc, key) ==
  IF ~doc.exists
  THEN {[key |-> key, collected |-> <<>>, default_configuration |-> NoDefault,
         raised |-> None, names |-> <<>>]}
  ELSE IF ConditionsRaise(doc.target_defaults.conditions, key) # None
  THEN {[key |-> key, collected |-> <<>>, default_configuration |-> NoDefault,
         raised |-> ConditionsRaise(doc.target_defaults.conditions, key), names |-> <<>>]}
  ELSE {[key |-> key, collected |-> collected,
         default_configuration |-> DeclaredDefault(DictsToEval(doc, key)),
         raised |-> None,
         names |-> DefaultFirst(SortConfigurationNames(collected),
                                DeclaredDefault(DictsToEval(doc, key)))] :
          collected \in CollectedNames(DictsToEval(doc, key))}

\* One call of _FindConfigurationsForOS.
FindConfigurations ==
  /\ Len(config_calls) < MaxConfigCalls
  /\ \E key \in ConfigKeys :
       \E call \in FindConfigurationsForOS(os_gypi, key) :
         config_calls' = Append(config_calls, call)
  /\ UNCHANGED <<os_gypi, all_configs, notCfgVars>>

\* What the loop of _FindAllConfigurations does from builder i on, given the
\* dict filled so far: an exception of a call ends the loop and the method.
RECURSIVE AllConfigurationsFrom(_, _, _)
AllConfigurationsFrom(doc, i, filled) ==
  IF i > Len(ConfigBuilders) THEN {[raised |-> None, all_configs |-> filled]}
  ELSE UNION { IF call.raised # None
               THEN {[raised |-> call.raised, all_configs |-> <<>>]}
               ELSE AllConfigurationsFrom(doc, i + 1,
                      (ConfigKey(ConfigBuilders[i]) :> call.names) @@ filled) :
               call \in FindConfigurationsForOS(doc, ConfigKey(ConfigBuilders[i])) }

\* _FindAllConfigurations
FindAllConfigurations ==
  /\ all_configs = <<>>
  /\ \E result \in AllConfigurationsFrom(os_gypi, 1, <<>>) : all_configs' = <<result>>
  /\ UNCHANGED <<os_gypi, config_calls, notCfgVars>>

CfgInit ==
  /\ os_gypi \in [exists : BOOLEAN,
                  target_defaults : {Section(c, d, conds) :
                                       c \in ConfigurationDicts,
                                       d \in DefaultConfigurations,
                                       conds \in {<<>>} \cup {<<x>> : x \in Conditions}}]
  /\ config_calls = <<>>
  /\ all_configs = <<>>

CfgIdle ==
  /\ os_gypi = None
  /\ config_calls = <<>>
  /\ all_configs = <<>>

CfgNext == FindConfigurations \/ FindAllConfigurations

(***************************************************************************)
(* TargetBuilder.BuildOutputRootDir and BuildOutputDir, asked of two       *)
(* different classes of the registry.                                      *)
(***************************************************************************)
\* BUILDER_REGISTRY.values()
RegisteredStrategies == {BUILDER_REGISTRY[i].cls : i \in DOMAIN BUILDER_REGISTRY}

OutputConfigurations == {"dbg", "opt"}

ComputeOutputDirs ==
  /\ output_dirs = <<>>
  /\ output_dirs' = [i \in 1..2 |->
                       [root |-> BuildOutputRootDir(strategies[i].cls),
                        dir |-> BuildOutputDir(strategies[i].cls, strategies[i].configuration)]]
  /\ UNCHANGED <<strategies, notDirVars>>

DirsInit ==
  /\ strategies \in {<<[cls |-> a, configuration |-> c], [cls |-> b, configuration |-> d]>> :
                       <<a, b>> \in {x \in RegisteredStrategies \X RegisteredStrategies : x[1] # x[2]},
                       <<c, d>> \in OutputConfigurations \X OutputConfigurations}
  /\ output_dirs = <<>>

DirsIdle ==
  /\ strategies = <<>>
  /\ output_dirs = <<>>

DirsNext == ComputeOutputDirs

(***************************************************************************)
(* DumpDependencyBuilder.GetDependencyJson once the dump generator has     *)
(* run, and the part of RunTests that takes the test targets from the      *)
(* dump and calls RunTest for each (without stop_on_failure).  The keys of *)
(* the dump are gyp's qualified targets, 'name#toolset'.                   *)
(***************************************************************************)
\* Bound: the number of keys of a dump.
MaxDumpKeys == 3

TargetNames == {"a_test", "b_test", "b", "c_tests", "test_d"}

Toolsets == {"target", "host"}

DependencyKeys == {name \o "#" \o toolset : name \in TargetNames, toolset \in Toolsets}

\* A file: whether it exists, and the keys of the dict it holds.
File(exists, keys) == [exists |-> exists, keys |-> keys]

\* TargetBuilder.GypCWD: ROOT_DIR, which the other paths are relative to.
GypCWD == "."

\* The two places of dump.json.
DumpInOutputRoot == PathJoin(BuildOutputRootDir(DumpDependencyBuilder("linux", "")), "dump.json")

DumpInGypCWD == PathJoin(GypCWD, "dump.json")

\* The first index at which sep is in s, 0 when it is not.
Find(s, sep) ==
  LET at == {i \in 1..(Len(s) - Len(sep) + 1) : SubSeq(s, i, i + Len(sep) - 1) = sep}
  IN  IF at = {} THEN 0 ELSE Min(at)

\* A mutant of SplitFirst: the text is left whole.
SplitFirst_Whole(s, sep) == s

\* s.split(sep)[0]
SplitFirst(s, sep) == IF Find(s, sep) = 0 THEN s ELSE SubSeq(s, 1, Find(s, sep) - 1)

\* s.endswith(suffix)
EndsWith(s, suffix) ==
  Len(s) >= Len(suffix) /\ SubSeq(s, Len(s) - Len(suffix) + 1, Len(s)) = suffix

\* self.RunGyp(filename) has run; json_path is the one in the output root,
\* or the one in the gyp working directory when that does not exist; open()
\* raises IOError for a path that does not exist.
GetDependencyJson ==
  /\ dpc = "start"
  /\ json_path' = IF dump_files.output_root.exists
                  THEN <<DumpInOutputRoot>>
                  ELSE <<DumpInOutputRoot, DumpInGypCWD>>
  /\ IF dump_files.output_root.exists
     THEN dump_keys' = dump_files.output_root.keys /\ dpc' = "loaded" /\ UNCHANGED dump_raised
     ELSE IF dump_files.gyp_cwd.exists
     THEN dump_keys' = dump_files.gyp_cwd.keys /\ dpc' = "loaded" /\ UNCHANGED dump_raised
     ELSE dump_raised' = "IOError" /\ dpc' = "raised" /\ UNCHANGED dump_keys
  /\ UNCHANGED <<dump_files, test_targets, run_test_calls, notDumpVars>>

\* targets = [t.split('#target')[0] for t in targets]
\* test_targets = set([t for t in targets if t.endswith('_test')])
SelectTestTargets ==
  /\ dpc = "loaded"
  /\ test_targets' = {t \in {SplitFirst(k, "#target") : k \in dump_keys} : EndsWith(t, "_test")}
  /\ dpc' = "loop"
  /\ UNCHANGED <<dump_files, json_path, dump_raised, dump_keys, run_test_calls, notDumpVars>>

\* for test_target in test_targets: result = self.RunTest(...), in the order
\* the set is iterated in.
RunTestOnNext ==
  /\ dpc = "loop"
  /\ \E t \in test_targets :
       /\ \A i \in 1..Len(run_test_calls) : run_test_calls[i] # t
       /\ run_test_calls' = Append(run_test_calls, t)
  /\ UNCHANGED <<dpc, dump_files, json_path, dump_raised, dump_keys, test_targets, notDumpVars>>

\* The for loop is over.
EndOfLoop ==
  /\ dpc = "loop"
  /\ \A t \in test_targets : \E i \in 1..Len(run_test_calls) : run_test_calls[i] = t
  /\ dpc' = "done"
  /\ UNCHANGED <<dump_files, json_path, dump_raised, dump_keys, test_targets, run_test_calls, notDumpVars>>

DumpInit ==
  /\ dpc = "start"
  /\ dump_files \in [output_root : {File(FALSE, {})} \cup {File(TRUE, d) : d \in {x \in SUBSET DependencyKeys : Cardinality(x) <= MaxDumpKeys}},
                     gyp_cwd : {File(FALSE, {}), File(TRUE, {"b_test#target"}), File(TRUE, {"c_tests#target", "a_test#target"})}]
  /\ json_path = <<>>
  /\ dump_raised = None
  /\ dump_keys = {}
  /\ test_targets = {}
  /\ run_test_calls = <<>>

DumpIdle ==
  /\ dpc = "idle"
  /\ dump_files = <<>>
  /\ json_path = <<>>
  /\ dump_raised = None
  /\ dump_keys = {}
  /\ test_targets = {}
  /\ run_test_calls = <<>>

DumpNext == GetDependencyJson \/ SelectTestTargets \/ RunTestOnNext \/ EndOfLoop

(***************************************************************************)
(* TargetBuilder._ConstructGypArgs: the command line of gyp, rendered from *)
(* a dictionary of flags and the gyp file.  A token is a string.  The      *)
(* value of a flag is None, a string or a list of strings.                 *)
(***************************************************************************)
GypNone == [t |-> "None", s |-> "", l |-> <<>>]
GypString(str) == [t |-> "str", s |-> str, l |-> <<>>]
GypList(list) == [t |-> "list", s |-> "", l |-> list]

\* The longest list a flag has as its value.
MaxArgValues == 2

\* Flags of GypArgs(): '-G' (a list), '--depth' (a string), '--check' (None).
ArgFlags == {"-G", "--depth", "--check"}

\* The strings a flag takes as a value or as an element of its list.
ArgValues == {"x", "y"}

GypFiles == {"ion.gyp"}

ArgLists == UNION {[1..n -> ArgValues] : n \in 0..MaxArgValues}

GypValues == {GypNone} \cup {GypString(x) : x \in ArgValues} \cup {GypList(l) : l \in ArgLists}

\* The dictionaries flags can be.
FlagDicts == UNION {[keys -> GypValues] : keys \in SUBSET ArgFlags}

\* arg.startswith(prefix)
StartsWith(arg, prefix) == Len(arg) >= Len(prefix) /\ SubSeq(arg, 1, Len(prefix)) = prefix

\* A FormatArgAndValue that renders every flag as two tokens.
FormatArgAndValue_TwoTokens(arg, value) == <<arg, value>>

\* def FormatArgAndValue(arg, value)
FormatArgAndValue(arg, value) ==
  IF StartsWith(arg, "--") THEN <<arg \o "=" \o value>> ELSE <<arg, value>>

\* list(itertools.chain.from_iterable([FormatArgAndValue(k, x) for x in v]))
RECURSIVE ChainFromIterable(_, _)
ChainFromIterable(k, v) ==
  IF v = <<>> THEN <<>> ELSE FormatArgAndValue(k, Head(v)) \o ChainFromIterable(k, Tail(v))

\* What one pass of the for loop adds to command_line.
RenderFlag(k, v) ==
  IF v.t = "str" THEN FormatArgAndValue(k, v.s)
  ELSE IF v.t = "None" THEN <<k>>
  ELSE ChainFromIterable(k, v.l)

\* for k, v in flags.iteritems(): ..., from the i-th flag of the order on.
RECURSIVE RenderFlags(_, _, _)
RenderFlags(d, order, i) ==
  IF i > Len(order) THEN <<>>
  ELSE RenderFlag(order[i], d[order[i]]) \o RenderFlags(d, order, i + 1)

\* _ConstructGypArgs(flags, filename)
ConstructGypArgs ==
  /\ command_line = <<>>
  /\ command_line' = RenderFlags(flags, flags_order, 1)
                       \o <<"--no-duplicate-basename-check">> \o <<gypfile>>
  /\ UNCHANGED <<flags, flags_order, gypfile, notArgVars>>

ArgsInit ==
  /\ flags \in FlagDicts
  /\ flags_order \in IterationOrders(DOMAIN flags)
  /\ gypfile \in GypFiles
  /\ command_line = <<>>

ArgsIdle ==
  /\ flags = <<>>
  /\ flags_order = <<>>
  /\ gypfile = ""
  /\ command_line = <<>>

ArgsNext == ConstructGypArgs

(***************************************************************************)
(* dev/ion.py: ComputeLibraryDependencies and TopologicalSort, two         *)
(* functions of a dictionary that maps a node to the list of the nodes it  *)
(* depends on / is connected to.                                            *)
(***************************************************************************)
\* The longest list a node has as its value.
MaxDeps == 2

Libs == {"a", "b", "c"}

DepLists == UNION {[1..n -> Libs] : n \in 0..MaxDeps}

\* The dictionaries the functions are called with.
LibDicts == UNION {[keys -> DepLists] : keys \in SUBSET Libs}

\* x in list
In(x, list) == \E i \in DOMAIN list : list[i] = x

\* A loop that stops at the direct dependencies of cur_lib.
Gather_DirectOnly(dict, cur_lib, libs_to_process, all_libs) == [raised |-> FALSE, all_libs |-> dict[cur_lib]]

\* The while loop of ComputeLibraryDependencies for one cur_lib: what it
\* leaves in all_libs, or that it raised.
RECURSIVE Gather(_, _, _, _)
Gather(dict, cur_lib, libs_to_process, all_libs) ==
  IF libs_to_process = <<>> THEN [raised |-> FALSE, all_libs |-> all_libs]
  ELSE LET lib == Head(libs_to_process)
           appended == IF lib # cur_lib THEN Append(all_libs, lib) ELSE all_libs
       IN IF lib \in DOMAIN dict
          THEN IF In(lib, dict[lib])
               THEN [raised |-> TRUE, all_libs |-> appended]
               ELSE Gather(dict, cur_lib,
                           Tail(libs_to_process)
                             \o SelectSeq(dict[lib], LAMBDA dep_lib : ~In(dep_lib, appended)),
                           appended)
          ELSE Gather(dict, cur_lib, Tail(libs_to_process), appended)

\* for cur_lib in direct_lib_dict.keys(): ..., from the i-th key on.
RECURSIVE ComputeFrom(_, _, _, _)
ComputeFrom(dict, order, i, ret_dict) ==
  IF i > Len(order) THEN [raised |-> FALSE, ret_dict |-> ret_dict]
  ELSE LET gathered == Gather(dict, order[i], <<order[i]>>, <<>>)
       IN IF gathered.raised THEN [raised |-> TRUE, ret_dict |-> <<>>]
          ELSE ComputeFrom(dict, order, i + 1, (order[i] :> gathered.all_libs) @@ ret_dict)

\* ComputeLibraryDependencies(direct_lib_dict)
ComputeLibraryDependencies ==
  /\ lib_result = <<>>
  /\ sort_result = <<>>
  /\ lib_result' = <<ComputeFrom(lib_dict, lib_keys, 1, <<>>)>>
  /\ UNCHANGED <<lib_dict, lib_keys, sort_result, notLibVars>>

\* d.get(key, [])
DictGet(dict, key) == IF key \in DOMAIN dict THEN dict[key] ELSE <<>>

\* _Search(key) and its for loop over the edges of key, on the state
\* [visited, sorted_nodes, visiting] of TopologicalSort; raised once the
\* exception is on its way up.
RECURSIVE Search(_, _, _)
RECURSIVE SearchEdges(_, _, _, _)
Search(dict, key, st) ==
  IF st.raised \/ In(key, st.visited) THEN st
  ELSE IF In(key, st.visiting) THEN [st EXCEPT !.raised = TRUE]
       ELSE LET searched == SearchEdges(dict, DictGet(dict, key), 1,
                                        [st EXCEPT !.visiting = Append(@, key)])
            IN IF searched.raised THEN searched
               ELSE [searched EXCEPT !.visited = Append(@, key),
                                     !.sorted_nodes = Append(@, key),
                                     !.visiting = Remove(@, key)]

SearchEdges(dict, edges, e, st) ==
  IF e > Len(edges) \/ st.raised THEN st
  ELSE SearchEdges(dict, edges, e + 1, Search(dict, edges[e], st))

\* for key in d.keys(): _Search(key), from the i-th key on.
RECURSIVE SearchFrom(_, _, _, _)
SearchFrom(dict, order, i, st) ==
  IF i > Len(order) \/ st.raised THEN st
  ELSE SearchFrom(dict, order, i + 1, Search(dict, order[i], st))

\* A TopologicalSort that returns the list as the search left it.
Reverse_Not(list) == list

\* sorted_nodes.reverse()
Reverse(list) == [i \in DOMAIN list |-> list[Len(list) + 1 - i]]

\* TopologicalSort(d)
TopologicalSort ==
  /\ lib_result = <<>>
  /\ sort_result = <<>>
  /\ LET st == SearchFrom(lib_dict, lib_keys, 1,
                 [visited |-> <<>>, sorted_nodes |-> <<>>, visiting |-> <<>>, raised |-> FALSE])
     IN sort_result' = <<[raised |-> st.raised,
                          sorted_nodes |-> IF st.raised THEN <<>> ELSE Reverse(st.sorted_nodes)]>>
  /\ UNCHANGED <<lib_dict, lib_keys, lib_result, notLibVars>>

LibsInit ==
  /\ lib_dict \in LibDicts
  /\ lib_keys \in IterationOrders(DOMAIN lib_dict)
  /\ lib_result = <<>>
  /\ sort_result = <<>>

LibsIdle ==
  /\ lib_dict = <<>>
  /\ lib_keys = <<>>
  /\ lib_result = <<>>
  /\ sort_result = <<>>

LibsNext == ComputeLibraryDependencies \/ TopologicalSort

FlagsNext == FindBuildFlags \/ ParseCommandLineArgs \/ GetActiveBuildFlags

Init == MainInit /\ FlagsIdle /\ TestsIdle /\ GypIdle /\ CfgIdle /\ DirsIdle /\ DumpIdle /\ ArgsIdle /\ LibsIdle

Spec == Init /\ [][MainNext]_vars

InitFlags == FlagsInit /\ MainIdle /\ TestsIdle /\ GypIdle /\ CfgIdle /\ DirsIdle /\ DumpIdle /\ ArgsIdle /\ LibsIdle

SpecFlags == InitFlags /\ [][FlagsNext]_vars

InitRegistry == RegistryInit /\ FlagsIdle /\ TestsIdle /\ GypIdle /\ CfgIdle /\ DirsIdle /\ DumpIdle /\ ArgsIdle /\ LibsIdle

SpecRegistry == InitRegistry /\ [][RegistryNext]_vars

InitTests == TestsInit /\ MainIdle /\ FlagsIdle /\ GypIdle /\ CfgIdle /\ DirsIdle /\ DumpIdle /\ ArgsIdle /\ LibsIdle

SpecTests == InitTests /\ [][TestsNext]_vars

InitGyp == GypInit /\ MainIdle /\ FlagsIdle /\ TestsIdle /\ CfgIdle /\ DirsIdle /\ DumpIdle /\ ArgsIdle /\ LibsIdle

SpecGyp == InitGyp /\ [][GypNext]_vars

InitCfg == CfgInit /\ MainIdle /\ FlagsIdle /\ TestsIdle /\ GypIdle /\ DirsIdle /\ DumpIdle /\ ArgsIdle /\ LibsIdle

SpecCfg == InitCfg /\ [][CfgNext]_vars

InitDirs == DirsInit /\ MainIdle /\ FlagsIdle /\ TestsIdle /\ GypIdle /\ CfgIdle /\ DumpIdle /\ ArgsIdle /\ LibsIdle

SpecDirs == InitDirs /\ [][DirsNext]_vars

InitInterrupt == InterruptInit /\ MainIdle /\ FlagsIdle /\ GypIdle /\ CfgIdle /\ DirsIdle /\ DumpIdle /\ ArgsIdle /\ LibsIdle

SpecInterrupt == InitInterrupt /\ [][InterruptNext]_vars

\* The same with the scheduling of the program: the control thread and the
\* workers of the pool go on while one of them has a step to take; whether
\* an interrupt is raised is up to the environment.
SpecInterruptLive == InitInterrupt /\ [][InterruptNext]_vars /\ WF_vars(TestsNext)

InitDump == DumpInit /\ MainIdle /\ FlagsIdle /\ TestsIdle /\ GypIdle /\ CfgIdle /\ DirsIdle /\ ArgsIdle /\ LibsIdle

SpecDump == InitDump /\ [][DumpNext]_vars

InitArgs == ArgsInit /\ MainIdle /\ FlagsIdle /\ TestsIdle /\ GypIdle /\ CfgIdle /\ DirsIdle /\ DumpIdle /\ LibsIdle

SpecArgs == InitArgs /\ [][ArgsNext]_vars

InitLibs == LibsInit /\ MainIdle /\ FlagsIdle /\ TestsIdle /\ GypIdle /\ CfgIdle /\ DirsIdle /\ DumpIdle /\ ArgsIdle

SpecLibs == InitLibs /\ [][LibsNext]_vars

(***************************************************************************)
(* The pipeline of main.                                                   *)
(***************************************************************************)
\* The run is neither --deps nor --clean without a gyp file.
PipelineRun == pc # "idle" /\ ~args.deps /\ ~(args.clean /\ filename = None)

\* The build tool of the builder was run.
BuildToolInvoked == \E i \in 1..Len(events) : events[i].ev = "build"

\* RunBuild was called (it ran the build tool, or pointed to Visual Studio).
BuildInvoked ==
  \E i \in 1..Len(events) : events[i].ev \in {"build", "open_visual_studio"}

\* RunTests was called: it took the dependency dump.
TestsInvoked ==
  \E i \in 1..Len(events) : events[i].by = "DumpDependencyBuilder"

\* The phase an effect of the run belongs to.
Phase(e) ==
  CASE e.ev \in {"clean_out", "clean_gen"} -> 0
    [] e.ev = "gyp" /\ e.by # "DumpDependencyBuilder" -> 1
    [] e.ev \in {"build", "open_visual_studio"} -> 2
    [] OTHER -> 3

PhasesInOrder ==
  \A i, j \in 1..Len(events) : i < j => Phase(events[i]) <= Phase(events[j])

NonZero(code) == code.t = "int" /\ code.i # 0

\* What C1 says of generation and of a failed build.
GenerateThenBuild ==
  /\ PhasesInOrder
  /\ BuildInvoked => (args.nogyp \/ gyp_retcode = PyInt(0))
  /\ NonZero(gyp_retcode)
       => (pc = "exit" /\ exit_status = 1 /\ ~BuildInvoked /\ ~TestsInvoked)
  /\ NonZero(exitcode) => (pc = "exit" /\ exit_status = 1 /\ ~TestsInvoked)

\* C1, as stated: in a run of main that is neither --deps nor --clean without
\* a gyp file the phases come in the order generate, build, test; the build
\* runs only after --nogyp or a generator status of zero, the tests only
\* after --nobuild or a build tool status of zero; a non-zero generator or
\* build status ends the run before the later phases.
C1_Original_PhasesGated ==
  PipelineRun =>
    /\ GenerateThenBuild
    /\ TestsInvoked => (args.nobuild \/ (BuildToolInvoked /\ exitcode = PyInt(0)))

\* C1, amended: the same, where the tests run also after a RunBuild that ran
\* no build tool and returned None (WindowsBuilderMSVS, which only points to
\* the solution to open in Visual Studio).
C1_PhasesGated ==
  PipelineRun =>
    /\ GenerateThenBuild
    /\ TestsInvoked =>
         \/ args.nobuild
         \/ BuildToolInvoked /\ exitcode = PyInt(0)
         \/ builder.run_build = "msvs" /\ ~BuildToolInvoked /\ exitcode = PyNone

C1_Witness ==
  /\ pc = "exit"
  /\ exit_status = 0
  /\ ~args.nogyp /\ ~args.nobuild /\ ~args.deps
  /\ gyp_retcode = PyInt(0)
  /\ exitcode = PyInt(0)
  /\ BuildToolInvoked
  /\ \E i \in 1..Len(events) : events[i].ev = "tests" /\ Len(events[i].info) > 0

\* C2: a run ends with status 1 whenever the host cannot build the target,
\* the generator or the build tool returned non-zero, the tests' aggregate
\* status is non-zero, or there is no gyp file and no --clean; it ends with
\* status 0 only when none of these happened.
C2_ExitStatus ==
  pc = "exit" =>
    LET failure ==
          \/ error = "InvalidTargetOSError"
          \/ \E i \in 1..Len(events) : events[i].ev = "gyp" /\ events[i].info.ret # 0
          \/ \E i \in 1..Len(events) : events[i].ev = "build" /\ events[i].info # 0
          \/ NonZero(retcode)
          \/ error = NoGypFile
    IN  /\ failure => exit_status = 1
        /\ exit_status = 0 => ~failure

(***************************************************************************)
(* RunTests.                                                               *)
(***************************************************************************)
\* The status each test target ends with: the status of its binary, and 0
\* from a RunTest that is a stub.
IndividualStatuses ==
  [i \in 1..Len(test_status) |-> IF Pooled(runner) THEN test_status[i] ELSE 0]

\* The bitwise OR of a list of statuses.
RECURSIVE BitwiseOr(_)
BitwiseOr(codes) ==
  IF codes = <<>> THEN 0 ELSE PyOr(Head(codes), BitwiseOr(Tail(codes)))

IsRunTestCall(c) == c.call = "RunTest"

\* The test targets RunTest was called for, in the order of the calls.
InvokedTargets ==
  LET run_tests == SelectSeq(calls, IsRunTestCall)
  IN  [i \in 1..Len(run_tests) |-> run_tests[i].target]

AllTargets == [i \in 1..Len(test_status) |-> i]

\* C3: without stop_on_failure RunTests calls RunTest for every test target
\* before it waits for any result, waits for all of them, and returns the
\* bitwise OR of the statuses, which is zero exactly when all of them are.
C3_RunAll ==
  (tpc # "idle" /\ ~stop_on_failure) =>
    /\ \A i, j \in 1..Len(calls) :
         (calls[i].call = "RunTest" /\ calls[j].call \in {"close", "join", "get"})
           => i < j
    /\ (\E j \in 1..Len(calls) : calls[j].call \in {"close", "join", "get"})
         => InvokedTargets = AllTargets
    /\ tpc = "done" =>
         /\ \A i \in 1..Len(tasks) : tasks[i].state = "done"
         /\ \A t \in 1..Len(test_status) :
              Cardinality({j \in 1..Len(calls) : calls[j] = Call("get", t)}) = 1
         /\ ret = PyInt(BitwiseOr(IndividualStatuses))
         /\ (ret = PyInt(0)) <=> (\A t \in 1..Len(test_status) : IndividualStatuses[t] = 0)

C3_Witness ==
  /\ tpc = "done"
  /\ ~stop_on_failure
  /\ Pooled(runner)
  /\ test_status = <<1, 0, 2>>
  /\ ret = PyInt(3)

\* C4: with stop_on_failure RunTests returns the status of the first test
\* target, in the order of iteration, whose status is not zero, and has
\* called RunTest for that target and the ones before it only; when no test
\* fails it has called RunTest for every target and returns 0.
C4_StopOnFailure ==
  (tpc = "done" /\ stop_on_failure) =>
    /\ \A N \in 1..Len(test_status) :
         (IndividualStatuses[N] # 0 /\ \A i \in 1..(N - 1) : IndividualStatuses[i] = 0)
           => /\ ret = PyInt(IndividualStatuses[N])
              /\ InvokedTargets = [i \in 1..N |-> i]
              /\ \A i \in 1..Len(tasks) : tasks[i].target <= N
    /\ (\A i \in 1..Len(test_status) : IndividualStatuses[i] = 0)
         => (ret = PyInt(0) /\ InvokedTargets = AllTargets)

C4_Witness ==
  /\ tpc = "done"
  /\ stop_on_failure
  /\ test_status = <<0, 2, 1>>
  /\ ret = PyInt(2)
  /\ InvokedTargets = <<1, 2>>

(***************************************************************************)
(* Build flags.                                                            *)
(***************************************************************************)

\* C8: with no build flag given on the command line, GetActiveBuildFlags
\* returns an empty dictionary, whatever the declared defaults are (ints,
\* strings that are not numbers, strings that look like integers).
C8_NoOverrideNoActiveFlags ==
  (fpc = "active" /\ DOMAIN cmdline = {}) => DOMAIN active_flags = {}

\* C9: a declared flag is active exactly when the value resolved for it differs
\* from its declared default, and a flag given on the command line with the
\* text of its default is not active.
C9_ActiveIffDiffersFromDefault ==
  fpc = "active" =>
    \A k \in DOMAIN possible_build_flags_ :
      /\ (k \in DOMAIN active_flags) <=> PyNe(flag_args[k], possible_build_flags_[k])
      /\ (k \in DOMAIN cmdline /\ cmdline[k] = PyText(possible_build_flags_[k]))
           => k \notin DOMAIN active_flags

(***************************************************************************)
(* The lookup of the builder.                                              *)
(***************************************************************************)
\* main has looked the builder up: it holds one, or it has left with the
\* error of the lookup.
LookupDone ==
  /\ pc \notin {"register", "main", "lookup"}
  /\ error \notin {NoGypFile, RegistrationError}

\* The request names no generator: neither -g nor --ninja.
NamesNoGenerator == args.generator = None /\ ~args.ninja

\* The class of the first key of the registry for the requested OS.
IsFirstRegisteredForOS(cls) ==
  \E i \in 1..Len(registry) :
    /\ registry[i].key[1] = args.os
    /\ \A j \in 1..(i - 1) : registry[j].key[1] # args.os
    /\ registry[i].cls = cls

NoBuilderExit ==
  /\ pc = "exit"
  /\ error \in {NoBuilderForGenerator, NoBuilderForOS}
  /\ exit_status = 1
  /\ instances = 0
  /\ builder = NoBuilder

Composer(e) ==
  IF e.by = "DumpDependencyBuilder"
  THEN DumpDependencyBuilder(builder.TARGET_OS, builder.TARGET_FLAVOR)
  ELSE builder

\* C10: composing the arguments of gyp leaves the parsed options as they
\* were, the -G list among them, and every composition of a run gives gyp the
\* user's -G values followed by the output_dir entry of the composing builder
\* (and what the class of that builder adds to it).
C10_GypArgsNoSideEffect ==
  pc # "idle" =>
    /\ args = argv
    /\ \A i \in 1..Len(events) :
         events[i].ev = "gyp"
           => events[i].info.G = GypArgsG(Composer(events[i]), argv.G)

(***************************************************************************)
(* The -D values of _ConstructGypFlags.                                    *)
(***************************************************************************)
\* a comes before b, or is b, in the lexicographic order of the characters.
LexLE(a, b) ==
  \E n \in 0..Len(a) :
    /\ n <= Len(b)
    /\ \A i \in 1..n : a[i] = b[i]
    /\ IF n = Len(a) THEN TRUE
       ELSE IF n = Len(b) THEN FALSE
       ELSE Ord(a[n + 1]) < Ord(b[n + 1])

\* How many times a text is in a list.
Occurrences(text, l) == Cardinality({i \in 1..Len(l) : l[i] = text})

\* The 'key=value' texts of a dict.
DefineTexts(d) == {FormatDefine(k, d[k]) : k \in DOMAIN d}

\* C11: the -D values of every composition are in the lexicographic order of
\* their 'key=value' text and are the defines and the variables, each once;
\* compositions that iterate the two dicts in different orders give the same
\* sequence.
C11_DefinesSorted ==
  /\ \A r \in 1..Len(D_runs) :
       /\ \A i \in 1..(Len(D_runs[r]) - 1) : LexLE(D_runs[r][i], D_runs[r][i + 1])
       /\ \A text \in DefineTexts(gyp_defines) \cup DefineTexts(gyp_variables) :
            Occurrences(text, D_runs[r]) =
              (IF text \in DefineTexts(gyp_defines) THEN 1 ELSE 0)
              + (IF text \in DefineTexts(gyp_variables) THEN 1 ELSE 0)
       /\ Len(D_runs[r]) = Cardinality(DOMAIN gyp_defines)
                           + Cardinality(DOMAIN gyp_variables)
  /\ \A r1, r2 \in 1..Len(D_runs) : D_runs[r1] = D_runs[r2]

C11_Witness ==
  /\ Len(D_runs) = 2
  /\ D_orders[1][1] # D_orders[2][1]
  /\ D_orders[1][2] # D_orders[2][2]
  /\ D_runs[1] = D_runs[2]
  /\ Len(D_runs[1]) = 5
  /\ D_runs[1][1] = <<"a", "0", "=">>
  /\ D_runs[1][2] = <<"a", "=">>

(***************************************************************************)
(* The host check.                                                         *)
(***************************************************************************)
\* C12: when the host OS is not among the POSSIBLE_HOST_OS of the selected
\* builder, nothing external has been done by the run (no gyp, no build tool,
\* no test, no directory removed) and the run ends with InvalidTargetOSError
\* and status 1, whatever --clean, --nogyp, --nobuild, -t and -T are.
C12_HostCheckedFirst ==
  (pc \notin {"idle", "main", "lookup"} /\ builder # NoBuilder /\ ~args.deps
     /\ ~CanBuildOnHost(builder, host_os))
    => /\ events = <<>>
       /\ pc = "exit" => (error = "InvalidTargetOSError" /\ exit_status = 1)

\* The list is in lexicographic order.
LexSorted(l) == \A i \in 1..(Len(l) - 1) : LexLE(l[i], l[i + 1])

\* The calls that returned a list for a document that exists.
Resolved == {i \in 1..Len(config_calls) : os_gypi.exists /\ config_calls[i].raised = None}

\* C13: every call of _FindConfigurationsForOS that returns gives the
\* collected names, each as often as it was collected; when the declared
\* default is among them it is first and the rest is in lexicographic order,
\* otherwise the whole list is in lexicographic order; two calls with the
\* same key return the same list.
C13_SortedDefaultFirst ==
  /\ \A i \in Resolved :
       LET call == config_calls[i]
           has_default == \E n \in 1..Len(call.collected) :
                             call.collected[n] = call.default_configuration
       IN /\ Len(call.names) = Len(call.collected)
          /\ \A n \in 1..Len(call.collected) :
               Occurrences(call.collected[n], call.names)
                 = Occurrences(call.collected[n], call.collected)
          /\ IF has_default
             THEN call.names[1] = call.default_configuration /\ LexSorted(Tail(call.names))
             ELSE LexSorted(call.names)
  /\ \A i, j \in Resolved :
       config_calls[i].key = config_calls[j].key
         => config_calls[i].names = config_calls[j].names

\* Two calls with one key collect 'a' and 'b' in different orders, 'b' is
\* the declared default, and both return ['b', 'a'].
C13_Witness ==
  /\ Len(config_calls) = 2
  /\ Resolved = {1, 2}
  /\ config_calls[1].key = config_calls[2].key
  /\ config_calls[1].collected = <<<<"a">>, <<"b">>>>
  /\ config_calls[2].collected = <<<<"b">>, <<"a">>>>
  /\ config_calls[1].default_configuration = <<"b">>
  /\ config_calls[2].names = <<<<"b">>, <<"a">>>>

\* The configurations the document has for a key: those of target_defaults
\* and those of the branch each condition takes for the key.
BranchTaken(condition, key) ==
  IF EvalPredicate(condition.predicate, key) = "True" THEN condition.true_dict.configurations
  ELSE IF condition.len = 3 THEN condition.else_dict.configurations
  ELSE <<>>

ConfigurationsFor(key) ==
  {os_gypi.target_defaults.configurations}
    \cup {BranchTaken(os_gypi.target_defaults.conditions[n], key) :
            n \in DOMAIN os_gypi.target_defaults.conditions}

\* C14 as stated: a call for a key the document has a configuration for
\* returns a list that is not empty.
C14_Original_NeverEmpty ==
  \A i \in Resolved :
    (\E c \in ConfigurationsFor(config_calls[i].key) : DOMAIN c # {})
      => config_calls[i].names # <<>>

\* C14: a call for a key the document has a configuration for that is not
\* abstract returns a list that is not empty.
C14_NeverEmpty ==
  \A i \in Resolved :
    (\E c \in ConfigurationsFor(config_calls[i].key) : \E conf \in DOMAIN c : ~c[conf])
      => config_calls[i].names # <<>>

\* The only configuration of the key that is not abstract is in the branch
\* of a condition, and the call returns it.
C14_Witness ==
  /\ Len(config_calls) = 1
  /\ Resolved = {1}
  /\ os_gypi.target_defaults.configurations = (<<"b">> :> TRUE)
  /\ Len(os_gypi.target_defaults.conditions) = 1
  /\ config_calls[1].names = <<<<"a", "0">>>>

\* C15: when _FindAllConfigurations is over, what a key's resolution raised
\* is a ConfigParseError, and every key whose own resolution raises nothing
\* has its list in the result.
C15_ErrorAbortsOneKey ==
  (all_configs # <<>> /\ os_gypi.exists)
    => /\ all_configs[1].raised \in {None, "ConfigParseError"}
       /\ \A key \in ConfigKeys :
            ConditionsRaise(os_gypi.target_defaults.conditions, key) = None
              => key \in DOMAIN all_configs[1].all_configs

\* Path a is inside the directory b.
NestedIn(a, b) == Len(a) > Len(b) /\ SubSeq(a, 1, Len(b) + 1) = b \o "/"

\* C16: two different registered classes have different (TARGET_OS,
\* TARGET_FLAVOR, GYP_GENERATOR), different output roots, neither inside
\* the other, and different output directories whatever the configurations.
C16_OutputDirsIsolated ==
  output_dirs # <<>>
    => /\ ConfigKey(strategies[1].cls) # ConfigKey(strategies[2].cls)
       /\ output_dirs[1].root # output_dirs[2].root
       /\ ~NestedIn(output_dirs[1].root, output_dirs[2].root)
       /\ ~NestedIn(output_dirs[2].root, output_dirs[1].root)
       /\ output_dirs[1].dir # output_dirs[2].dir

\* LinuxHostBuilder and LinuxBuilder with one configuration: the name of
\* one root starts with the name of the other, yet it is not inside it.
C16_Witness ==
  /\ output_dirs # <<>>
  /\ strategies[1].cls = RegisteredClasses[2]
  /\ strategies[2].cls = RegisteredClasses[1]
  /\ strategies[1].configuration = strategies[2].configuration
  /\ output_dirs[1].root = "gyp-out/linux-host"
  /\ output_dirs[2].dir = "gyp-out/linux/opt"

\* C17: once main is past the cleaning step with --clean and a builder, the
\* first events are the cleaning of the builder's output directory and of
\* its generator directory (where the builder has one to clean), so no gyp,
\* build or test event is before them; without a gyp file no gyp is run and
\* the run ends with status 0.
C17_CleanFirst ==
  (pc \notin {"idle", "main", "lookup", "selected"} /\ builder # NoBuilder /\ args.clean)
    => /\ Len(events) >= 1
       /\ IF Len(events) >= 1
          THEN events[1] = Event("clean_out", builder.name, BuildOutputRootDir(builder))
          ELSE FALSE
       /\ builder.clean_gen = "projects"
            => IF Len(events) >= 2 THEN events[2].ev = "clean_gen" ELSE FALSE
       /\ filename = None
            => /\ pc = "exit" /\ exit_status = 0 /\ error = None
               /\ \A i \in 1..Len(events) : events[i].ev \in {"clean_out", "clean_gen"}

\* C18 as stated: no more workers of the pool are busy with a test than the
\* pool has, and the pool has as many as -j/--threads says, or as the host
\* has CPUs when the option is not given.
C18_Original_PoolSizeFromThreads ==
  tpc # "idle"
    => /\ Cardinality(Busy(tasks)) <= pool_size
       /\ pool_size = (IF threads = PyNone THEN cpu_count ELSE threads.i)

\* C18: no more workers of the pool are busy with a test than the pool has,
\* and the pool has as many as the host has CPUs, whether or not
\* -j/--threads is given.
C18_PoolSizeIsCpuCount ==
  tpc # "idle"
    => /\ Cardinality(Busy(tasks)) <= pool_size
       /\ pool_size = cpu_count

\* Run-all mode with -j given: every worker is busy and a test waits in the
\* queue of the pool.
C18_Witness ==
  /\ tpc = "loop"
  /\ ~stop_on_failure
  /\ threads # PyNone
  /\ pool_size = 2
  /\ Cardinality(Busy(tasks)) = pool_size
  /\ \E i \in 1..Len(tasks) : tasks[i].state = "queued"

\* C19: when RunTests has returned, one pool was created and the pool of the
\* builder was closed once and joined once.
C19_OnePoolClosedOnce ==
  tpc = "done"
    => /\ pools_created = 1
       /\ pool_state = "joined"
       /\ Cardinality({i \in 1..Len(calls) : calls[i] = Call("close", 0)}) = 1
       /\ Cardinality({i \in 1..Len(calls) : calls[i] = Call("join", 0)}) = 1

\* C20: a write to the console made while a task of the pool other than the
\* writer's own is not done is made by the holder of stdout_lock.
C20_WritesUnderLock ==
  console.unfinished => (console.lock # 0 /\ console.lock = console.task)

\* C21: a worker a KeyboardInterrupt was raised in has returned -1; when
\* RunTests has returned after getting the result of such a worker, what it
\* returned is not zero.
C21_InterruptGivesMinusOne ==
  /\ \A i \in 1..Len(tasks) :
       tasks[i].interrupted => (tasks[i].state = "done" /\ tasks[i].retcode = -1)
  /\ (tpc = "done" /\ \E i \in 1..Len(results) :
                        /\ tasks[results[i].task].interrupted
                        /\ \E j \in 1..Len(calls) : calls[j] = Call("get", tasks[results[i].task].target))
       => (ret # PyNone /\ ret # PyInt(0))

\* Run-all mode: every test passes, one worker was interrupted while its
\* test ran, and RunTests has returned -1.
C21_Witness ==
  /\ tpc = "done"
  /\ ~stop_on_failure
  /\ test_status = <<0, 0>>
  /\ tasks[1].interrupted
  /\ ~tasks[2].interrupted
  /\ stdout_lock = 0
  /\ ret = PyInt(-1)

WithoutTargetSuffix(k) ==
  IF EndsWith(k, "#target") THEN SubSeq(k, 1, Len(k) - Len("#target")) ELSE k

\* C23: when the for loop of RunTests is over, RunTest was called once for
\* each key of the dump that, without its '#target' suffix, ends in '_test',
\* and for nothing else.
C23_TestTargetsSelected ==
  dpc = "done"
    => LET expected == {t \in {WithoutTargetSuffix(k) : k \in dump_keys} : EndsWith(t, "_test")}
       IN  /\ {run_test_calls[i] : i \in 1..Len(run_test_calls)} = expected
           /\ Len(run_test_calls) = Cardinality(expected)

\* A dump with two tests, a test of the host toolset and no other test:
\* RunTest was called for the two.
C23_Witness ==
  /\ dpc = "done"
  /\ dump_keys = {"a_test#target", "a_test#host", "b_test#target"}
  /\ run_test_calls = <<"b_test", "a_test">>

C25_DepsOnly ==
  (pc \notin {"idle", "main", "lookup"} /\ args.deps /\ builder # NoBuilder)
    => /\ pc \in {"selected", "exit"}
       /\ Len(events) <= 1
       /\ \A i \in 1..Len(events) :
            events[i].ev = "gyp" /\ events[i].by = "DumpDependencyBuilder"
       /\ retcode = PyNone
       /\ (pc = "exit" /\ error = None) => (Len(events) = 1 /\ exit_status = 0)

\* A run with --deps and -t that has ended after the dump.
C25_Witness ==
  /\ pc = "exit"
  /\ args.deps
  /\ args.test
  /\ ~args.nobuild
  /\ filename # None
  /\ Len(events) = 1
  /\ events[1].by = "DumpDependencyBuilder"

\* C26: a lookup with --ninja and no -g ends as the lookup of the same
\* request with -g ninja in place of --ninja does: with the same builder, or
\* with the same error.
C26_NinjaIsGNinja ==
  (LookupDone /\ args.ninja /\ args.generator = None)
    => LET other == FindBuilder(registry, [args EXCEPT !.ninja = FALSE, !.generator = "ninja"])
       IN  /\ builder = other.cls
           /\ builder = NoBuilder => error = other.error

\* C27: in a run with --gypd RunBuild is never called.
C27_GypdNoBuild ==
  (pc # "idle" /\ args.gypd) => ~BuildInvoked


\* The tokens that directly follow the occurrences of the token k, in order.
RECURSIVE FollowersOf(_, _, _)
FollowersOf(k, cl, i) ==
  IF i >= Len(cl) THEN <<>>
  ELSE IF cl[i] = k THEN <<cl[i + 1]>> \o FollowersOf(k, cl, i + 1)
  ELSE FollowersOf(k, cl, i + 1)

\* The tokens of the form k=..., in order.
TokensWithValue(k, cl) == SelectSeq(cl, LAMBDA tok : StartsWith(tok, k \o "="))

\* The values the occurrences of the flag k carry in cl, in order: the part
\* after '=' of the single tokens of a '--' flag, the token after the flag
\* for any other flag.
ValuesOf(k, cl) ==
  IF StartsWith(k, "--")
  THEN [j \in DOMAIN TokensWithValue(k, cl) |->
          SubSeq(TokensWithValue(k, cl)[j], Len(k) + 2, Len(TokensWithValue(k, cl)[j]))]
  ELSE FollowersOf(k, cl, 1)

\* The occurrences of the flag k in cl that carry a value.
OccurrencesOf(k, cl) ==
  IF StartsWith(k, "--") THEN Len(TokensWithValue(k, cl)) ELSE Occurrences(k, cl)

\* C28: _ConstructGypArgs renders every flag of the dictionary: a flag whose
\* value is None once as a bare token; a flag with a string value once; a
\* flag with a list value once per element, in the order of the list, and
\* not at all for an empty list; an occurrence of a flag that starts with
\* '--' is the single token flag=value, an occurrence of any other flag is
\* the flag followed directly by the value; the gyp file is the last token.
C28_FlagsRendered ==
  command_line # <<>> =>
    /\ command_line[Len(command_line)] = gypfile
    /\ \A k \in DOMAIN flags :
         /\ flags[k].t = "None" =>
              Occurrences(k, command_line) = 1 /\ TokensWithValue(k, command_line) = <<>>
         /\ flags[k].t = "str" =>
              /\ OccurrencesOf(k, command_line) = 1
              /\ ValuesOf(k, command_line) = <<flags[k].s>>
         /\ flags[k].t = "list" =>
              /\ OccurrencesOf(k, command_line) = Len(flags[k].l)
              /\ ValuesOf(k, command_line) = flags[k].l
         /\ (flags[k].t # "None" /\ StartsWith(k, "--")) => Occurrences(k, command_line) = 0

\* The command line of a dictionary with a list of two values at '-G', a
\* string at '--depth' and None at '--check'.
C28_Witness ==
  /\ command_line # <<>>
  /\ DOMAIN flags = ArgFlags
  /\ flags["-G"] = GypList(<<"x", "y">>)
  /\ flags["--depth"] = GypString("x")
  /\ flags["--check"] = GypNone


\* The edges of the graph of a dictionary: a key to each element of its list.
DepEdges(dict) == UNION {{<<u, dict[u][i]>> : i \in DOMAIN dict[u]} : u \in DOMAIN dict}

\* The nodes of the graph: the keys and the nodes that are edge targets.
DepNodes(dict) == DOMAIN dict \cup {e[2] : e \in DepEdges(dict)}

\* R with the pairs that two consecutive pairs of R join.
Compose(R) == R \cup {p \in Libs \X Libs : \E m \in Libs : <<p[1], m>> \in R /\ <<m, p[2]>> \in R}

\* The pairs joined by a path of at most 2^n edges of R.
RECURSIVE Paths(_, _)
Paths(R, n) == IF n = 0 THEN R ELSE Paths(Compose(R), n - 1)

\* The graph of the dictionary has a cycle: a node with a path to itself.
HasCycle(dict) == \E n \in Libs : <<n, n>> \in Paths(DepEdges(dict), Cardinality(Libs))

\* C29: ComputeLibraryDependencies raises an exception for every dictionary
\* whose graph has a cycle, of one node or longer, and returns normally only
\* for a dictionary without a cycle.
C29_RaisesOnEveryCycle ==
  lib_result # <<>> => (lib_result[1].raised <=> HasCycle(lib_dict))

\* The place of the node n in the list.
Position(list, n) == CHOOSE i \in DOMAIN list : list[i] = n

\* C30: for a dictionary without a cycle TopologicalSort returns a list with
\* every node, key or edge target only, exactly once and every node before
\* the nodes it is connected to; for a dictionary with a cycle it raises.
C30_TopologicalOrder ==
  sort_result # <<>> =>
    IF HasCycle(lib_dict) THEN sort_result[1].raised
    ELSE /\ ~sort_result[1].raised
         /\ \A n \in DepNodes(lib_dict) : Occurrences(n, sort_result[1].sorted_nodes) = 1
         /\ Len(sort_result[1].sorted_nodes) = Cardinality(DepNodes(lib_dict))
         /\ \A e \in DepEdges(lib_dict) :
              Position(sort_result[1].sorted_nodes, e[1])
                < Position(sort_result[1].sorted_nodes, e[2])

\* A sorted list of three nodes, of which one is an edge target only and one
\* is reached along two paths.
C30_Witness ==
  /\ sort_result # <<>>
  /\ DOMAIN lib_dict = {"a", "b"}
  /\ lib_dict["a"] = <<"c", "b">>
  /\ lib_dict["b"] = <<"c">>
  /\ sort_result[1].sorted_nodes = <<"a", "b", "c">>


\* C31: in stop-on-failure mode at most one test is running at any time: a
\* test is given to the pool only when every test given before it is done
\* and its result was obtained, and when RunTests has returned on a failure
\* no worker is still at a test.
C31_OneAtATime ==
  stop_on_failure =>
    /\ Cardinality({i \in 1..Len(tasks) : tasks[i].state # "done"}) <= 1
    /\ \A i \in 1..(Len(tasks) - 1) :
         tasks[i].state = "done" /\ \E c \in 1..Len(calls) : calls[c] = Call("get", i)
    /\ (tpc = "done" /\ ret # PyInt(0)) => \A i \in 1..Len(tasks) : tasks[i].state = "done"

\* RunTests has returned on the failure of the second of three tests, which
\* were given to the pool.
C31_Witness ==
  /\ stop_on_failure
  /\ tpc = "done"
  /\ ret # PyInt(0)
  /\ Len(test_status) = 3
  /\ Len(tasks) = 2


\* C32: a worker that has acquired stdout_lock releases it before it
\* returns, on every exit path of _AsyncSubprocess, the one through the
\* except clause included: the lock is never held by a task that is done.
C32_LockReleased ==
  \A i \in 1..Len(tasks) : tasks[i].state = "done" => stdout_lock # i


\* C33: in run-all mode, whatever the number of test targets, the size of
\* the pool and the interleaving of the workers, RunTests eventually
\* returns when every test process exits: no worker waits for stdout_lock
\* forever and pool.join() returns.
C33_RunAllReturns == <>(stop_on_failure \/ tpc = "done")


\* C34: a non-zero status of the generator run by the DumpDependencyBuilder
\* is never ignored, in --deps mode and at the start of the test phase:
\* nothing is done after that run of the generator (no test is run on the
\* targets of a dump) and the run ends with exit status 1.
C34_DumpStatusNotIgnored ==
  \A i \in 1..Len(events) :
    (events[i].ev = "gyp" /\ events[i].by = "DumpDependencyBuilder" /\ events[i].info.ret # 0)
      => /\ i = Len(events)
         /\ (pc = "exit" => exit_status = 1)


\* C35: the names a call of _FindConfigurationsForOS returns are exactly
\* the configurations that are not abstract of the 'configurations' dicts
\* reached for the key: that of target_defaults and, of each condition, that
\* of the true branch when the predicate holds for the key and of the false
\* branch, when there is one, otherwise; the list is empty when there is no
\* document.
C35_ExactlyReachable ==
  \A i \in 1..Len(config_calls) :
    LET call == config_calls[i]
    IN  IF ~os_gypi.exists THEN call.raised = None /\ call.names = <<>>
        ELSE call.raised = None =>
               {call.names[n] : n \in DOMAIN call.names}
                 = UNION {{conf \in DOMAIN c : ~c[conf]} : c \in ConfigurationsFor(call.key)}

\* target_defaults has an abstract configuration and two others, the
\* predicate of its condition does not hold for the key and there is no
\* false branch: the call returns the two, without the abstract one and
\* without the one of the true branch.
C35_Witness ==
  /\ Len(config_calls) = 1
  /\ Resolved = {1}
  /\ os_gypi.exists
  /\ os_gypi.target_defaults.configurations
       = (<<"a">> :> TRUE) @@ (<<"a", "b">> :> FALSE) @@ (<<"b">> :> FALSE)
  /\ Len(os_gypi.target_defaults.conditions) = 1
  /\ os_gypi.target_defaults.conditions[1].len = 2
  /\ os_gypi.target_defaults.conditions[1].true_dict.configurations = (<<"a", "0">> :> FALSE)
  /\ EvalPredicate(os_gypi.target_defaults.conditions[1].predicate, config_calls[1].key) = "False"
  /\ config_calls[1].names = <<<<"a", "b">>, <<"b">>>>


\* C36: the list a call of _FindConfigurationsForOS returns has every name
\* at most once, also when several 'configurations' dicts reached for the
\* key define the name, and the declared default is then at the front only.
C36_NoDuplicates ==
  \A i \in Resolved :
    \A n, m \in DOMAIN config_calls[i].names :
      config_calls[i].names[n] = config_calls[i].names[m] => n = m


\* C37: when no configuration is given on the command line, build and test
\* use the first entry of the list resolved for the key of the builder;
\* when that list is empty the run ends with one reported error and exit
\* status 1, not with an exception nobody catches, and neither the build
\* tool nor a test is started.
C37_DefaultConfiguration ==
  (pc \notin {"idle", "main", "lookup"} /\ builder # NoBuilder /\ args.configuration = None)
    => /\ configuration # None => (all_configs_ # <<>> /\ configuration = all_configs_[1])
       /\ (all_configs_ = <<>> /\ pc = "exit" /\ ~args.deps /\ filename # None
             /\ error \notin {"gyp returned non-zero", "InvalidTargetOSError"})
            => /\ exit_status = 1
               /\ error # "IndexError"
               /\ \A n \in 1..Len(events) : events[n].ev \notin {"build", "open_visual_studio", "tests"}


\* C38: on a builder whose RunTest is a stub, RunTest gives nothing to the
\* pool and returns 0, RunTests wraps the 0 in a _FakeAsyncResult, and
\* RunTests goes through every test target and returns 0, in run-all and in
\* stop-on-failure mode, whatever the test binaries would exit with.
C38_StubReturnsZero ==
  (runner # NoBuilder /\ runner.run_test = "stub")
    => /\ tasks = <<>>
       /\ \A n \in 1..Len(results) : results[n] = FakeAsyncResult(0) /\ Get(tasks, results[n]) = 0
       /\ tpc = "done" => (ret = PyInt(0) /\ Len(results) = Len(test_status))

\* RunTests has returned in stop-on-failure mode on a stub builder, with
\* three test targets whose binaries would fail.
C38_Witness ==
  /\ runner # NoBuilder
  /\ runner.run_test = "stub"
  /\ stop_on_failure
  /\ tpc = "done"
  /\ test_status = <<1, 2, 1>>
  /\ Len(results) = 3
  /\ ret = PyInt(0)


\* C39: ComputeLibraryDependencies comes to an end for every dictionary,
\* and for a dictionary without a cycle it returns, for every key, a list
\* whose elements are exactly the libraries a path of one or more edges
\* leads to from the key; the key is not among them.
C39_TransitiveClosure ==
  /\ ComputeFrom(lib_dict, lib_keys, 1, <<>>).raised \in BOOLEAN
  /\ (lib_result # <<>> /\ ~HasCycle(lib_dict))
       => /\ ~lib_result[1].raised
          /\ DOMAIN lib_result[1].ret_dict = DOMAIN lib_dict
          /\ LET paths == Paths(DepEdges(lib_dict), Cardinality(Libs))
             IN  \A key \in DOMAIN lib_dict :
                   LET all_libs == lib_result[1].ret_dict[key]
                   IN  /\ {all_libs[n] : n \in DOMAIN all_libs}
                            = {lib \in Libs : <<key, lib>> \in paths}
                       /\ \A n \in DOMAIN all_libs : all_libs[n] # key

\* The list of 'a' in a chain a -> b -> c has 'c', which 'a' does not
\* depend on directly.
C39_Witness ==
  /\ lib_result # <<>>
  /\ DOMAIN lib_dict = {"a", "b"}
  /\ lib_dict["a"] = <<"b">>
  /\ lib_dict["b"] = <<"c">>
  /\ lib_result[1].ret_dict["a"] = <<"b", "c">>

====
